---- MODULE Spec2Model ----
(***************************************************************************)
(* Unit-conversion page of lukelmg/Playground.                              *)
(*                                                                         *)
(* The page keeps three pieces of React state (result, conversions,         *)
(* selectedUnits) and recomputes them from event handlers.  Three variants  *)
(* of the page exist in the repository:                                     *)
(*   src/app/conversion/page.tsx   (modal dialog, getMissingUnits)    Spec  *)
(*   src/unnamed/part_000          (autoSelectUnits on a timer)   SpecAuto  *)
(*   src/unnamed/part_002          (selection filtered on input) SpecFilter *)
(* The pure helpers (removeDuplicateConversions, getConversionFactor,       *)
(* getDimensionalExpression, calculateDimensionalAnalysis) are textually    *)
(* identical in the three files, and are also exercised directly under      *)
(* SpecFn.                                                                  *)
(*                                                                         *)
(* mathjs is an external library.  Its Unit objects are modelled by the     *)
(* definitions of the first section, on a registry cut down to a handful    *)
(* of units.                                                                *)
(***************************************************************************)
EXTENDS Integers, Sequences, FiniteSets, TLC

VARIABLES
    result,         \* Result: value, inMeters, dimensionalAnalysis
    conversions,    \* UnitConversion[]
    selectedUnits,  \* SelectedUnit[]
    isModalOpen,    \* page.tsx only: the dialog that holds the unit buttons
    timers,         \* part_000 only: pending setTimeout callbacks, oldest first
    typed,          \* value: the text of the input field
    lastOp,         \* the handler that ran last, with its arguments
    call,           \* SpecFn only: the last direct call of a pure helper
    content,        \* math/page.tsx: the text the input shows
    isSaving,       \* math/page.tsx: the "Saving..." indicator
    lastUpdateRef,  \* math/page.tsx: lastUpdateRef.current
    debounced,      \* math/page.tsx: the arguments debouncedUpdate waits with
    updates,        \* math/page.tsx: the update requests that have no answer yet
    row,            \* the content of row 1 of math_content
    channel,        \* the change notifications on their way to this client
    fetch           \* math/page.tsx: the initial select

\* the state of the text editor of src/app/math/page.tsx and of its table
editor == <<content, isSaving, lastUpdateRef, debounced, updates, row, channel, fetch>>

vars == <<result, conversions, selectedUnits, isModalOpen, timers, typed, lastOp, call, editor>>

(***************************************************************************)
(* Numbers.  Every number the page computes is a product of integer powers  *)
(* of a few constants, so a number is kept exactly as its vector of         *)
(* exponents: p2, p3, p5, p127 are the primes, lbf stands for               *)
(* 4.4482216152605 and psi for 6894.75729276459 (mathjs' values of those    *)
(* units).  Multiplication, division and Math.pow are exact on this form.   *)
(***************************************************************************)
Atoms == {"p2", "p3", "p5", "p127", "lbf", "psi"}

One == [a \in Atoms |-> 0]

Atom(a, e) == [b \in Atoms |-> IF b = a THEN e ELSE 0]

Mul(x, y) == [a \in Atoms |-> x[a] + y[a]]

Pow(x, k) == [a \in Atoms |-> x[a] * k]

Div(x, y) == Mul(x, Pow(y, -1))

Two == Atom("p2", 1)
Three == Atom("p3", 1)
Five == Atom("p5", 1)
Ten == Mul(Two, Five)

(***************************************************************************)
(* math.Unit.UNITS, in the registry's enumeration order (aliases last).     *)
(* value is the unit in SI base units.                                      *)
(***************************************************************************)
UNITS == <<
    [name |-> "m",       base |-> "LENGTH",   value |-> One],
    [name |-> "ft",      base |-> "LENGTH",
        value |-> Mul(Mul(Three, Atom("p127", 1)), Mul(Pow(Two, -1), Pow(Five, -4)))],
    [name |-> "g",       base |-> "MASS",     value |-> Pow(Ten, -3)],
    [name |-> "s",       base |-> "TIME",     value |-> One],
    [name |-> "N",       base |-> "FORCE",    value |-> One],
    [name |-> "lbf",     base |-> "FORCE",    value |-> Atom("lbf", 1)],
    [name |-> "J",       base |-> "ENERGY",   value |-> One],
    [name |-> "Pa",      base |-> "PRESSURE", value |-> One],
    [name |-> "psi",     base |-> "PRESSURE", value |-> Atom("psi", 1)],
    [name |-> "meter",   base |-> "LENGTH",   value |-> One],
    [name |-> "meters",  base |-> "LENGTH",   value |-> One],
    [name |-> "grams",   base |-> "MASS",     value |-> Pow(Ten, -3)],
    [name |-> "seconds", base |-> "TIME",     value |-> One] >>

UnitNames == {UNITS[i].name : i \in DOMAIN UNITS}

UnitDef(name) == UNITS[CHOOSE i \in DOMAIN UNITS : UNITS[i].name = name]

\* PREFIXES: the scale each prefix name stands for
PrefixValue(p) ==
    CASE p = ""  -> One
      [] p = "c" -> Pow(Ten, -2)
      [] p = "m" -> Pow(Ten, -3)
      [] p = "k" -> Pow(Ten, 3)

\* The prefixed symbols the page can meet; every other symbol is a bare unit name.
PrefixedSymbols == <<
    [sym |-> "cm", unit |-> "m", prefix |-> "c"],
    [sym |-> "kg", unit |-> "g", prefix |-> "k"],
    [sym |-> "ms", unit |-> "s", prefix |-> "m"] >>

IsPrefixed(sym) == \E i \in DOMAIN PrefixedSymbols : PrefixedSymbols[i].sym = sym

KnownSymbol(sym) == sym \in UnitNames \/ IsPrefixed(sym)

\* Unit._findUnit: the unit and the prefix a symbol stands for
FindUnit(sym) ==
    IF IsPrefixed(sym)
    THEN LET e == PrefixedSymbols[CHOOSE i \in DOMAIN PrefixedSymbols :
                                      PrefixedSymbols[i].sym = sym]
         IN  [unit |-> e.unit, prefix |-> e.prefix]
    ELSE [unit |-> sym, prefix |-> ""]

\* prefix.name + unit.name, as formatUnits prints one entry of Unit.units
Symbol(part) ==
    IF \E i \in DOMAIN PrefixedSymbols :
          /\ PrefixedSymbols[i].unit = part.unit
          /\ PrefixedSymbols[i].prefix = part.prefix
    THEN PrefixedSymbols[CHOOSE i \in DOMAIN PrefixedSymbols :
                            /\ PrefixedSymbols[i].unit = part.unit
                            /\ PrefixedSymbols[i].prefix = part.prefix].sym
    ELSE part.unit

Part(sym, power) ==
    [unit |-> FindUnit(sym).unit, prefix |-> FindUnit(sym).prefix, power |-> power]

(***************************************************************************)
(* Dimensions of the base keys, as exponents of mass, length and time.      *)
(***************************************************************************)
BaseDim(base) ==
    CASE base = "MASS"     -> [mass |-> 1, length |-> 0,  time |-> 0]
      [] base = "LENGTH"   -> [mass |-> 0, length |-> 1,  time |-> 0]
      [] base = "TIME"     -> [mass |-> 0, length |-> 0,  time |-> 1]
      [] base = "FORCE"    -> [mass |-> 1, length |-> 1,  time |-> -2]
      [] base = "ENERGY"   -> [mass |-> 1, length |-> 2,  time |-> -2]
      [] base = "PRESSURE" -> [mass |-> 1, length |-> -1, time |-> -2]

NoDim == [mass |-> 0, length |-> 0, time |-> 0]

\* d * p + r on dimensions
AddDim(d, p, r) ==
    [mass   |-> d.mass * p + r.mass,
     length |-> d.length * p + r.length,
     time   |-> d.time * p + r.time]

RECURSIVE DimOf(_)
DimOf(parts) ==
    IF parts = <<>> THEN NoDim
    ELSE AddDim(BaseDim(UnitDef(parts[1].unit).base), parts[1].power, DimOf(Tail(parts)))

\* the factor that takes a number in these units to SI
RECURSIVE Scale(_)
Scale(parts) ==
    IF parts = <<>> THEN One
    ELSE Mul(Pow(Mul(UnitDef(parts[1].unit).value, PrefixValue(parts[1].prefix)),
                 parts[1].power),
             Scale(Tail(parts)))

\* A Unit object: value is normalised to SI, units is the list of unit parts,
\* skip is skipAutomaticSimplification.
MkUnit(mag, parts, skip) ==
    [value |-> Mul(mag, Scale(parts)), units |-> parts, skip |-> skip]

\* Unit.toNumber() without argument: the value in the unit's own units
ToNumber(u) == Div(u.value, Scale(u.units))

\* Unit.to(target): fails unless the dimensions agree
CanConvert(u, targetParts) == DimOf(u.units) = DimOf(targetParts)

To(u, targetParts) == [value |-> u.value, units |-> targetParts, skip |-> TRUE]

(***************************************************************************)
(* Strings.  A string the page splits or parses is kept as its sequence of  *)
(* tokens; the blank is a token, so that split(' ') is computed and not     *)
(* assumed.  A numeral token carries the number it spells: mathjs prints a  *)
(* number with all its significant digits, so two numerals are the same     *)
(* string exactly when they spell the same number.                          *)
(***************************************************************************)
NumTok(x) == [t |-> "num", n |-> x, s |-> "", p |-> 0]

Sp == [t |-> "sp", n |-> One, s |-> " ", p |-> 0]

\* the string sym^p
Caret(sym, p) == [t |-> "pow", n |-> One, s |-> sym, p |-> p]

\* a unit symbol as mathjs prints it: sym when p = 1 and sym^p otherwise
Word(sym, p) == IF p = 1 THEN [t |-> "sym", n |-> One, s |-> sym, p |-> 1] ELSE Caret(sym, p)

Slash == [t |-> "op", n |-> One, s |-> "/", p |-> 0]

\* a string with no structure the page looks into
Text(s) == [t |-> "text", n |-> One, s |-> s, p |-> 0]

\* str.split(' ')[0]
RECURSIVE Split0(_)
Split0(str) ==
    IF str = <<>> \/ Head(str).t = "sp" THEN <<>>
    ELSE <<Head(str)>> \o Split0(Tail(str))

\* what follows the first blank of str (empty when there is none)
RECURSIVE AfterBlank(_)
AfterBlank(str) ==
    IF str = <<>> THEN <<>>
    ELSE IF Head(str).t = "sp" THEN Tail(str)
    ELSE AfterBlank(Tail(str))

\* str.split(' ')[1]
Split1(str) == Split0(AfterBlank(str))

(***************************************************************************)
(* Unit.simplify and Unit.format.  The unit system names one unit for the   *)
(* bases LENGTH, MASS, TIME, FORCE, ENERGY and PRESSURE; any other          *)
(* dimension is rebuilt from the base units, mass first.  The inputs of     *)
(* this model print with a magnitude between 0.1 and 1000, where format     *)
(* keeps the prefix it was given.                                           *)
(***************************************************************************)
SystemUnit(base) ==
    CASE base = "LENGTH"   -> Part("m", 1)
      [] base = "MASS"     -> Part("kg", 1)
      [] base = "TIME"     -> Part("s", 1)
      [] base = "FORCE"    -> Part("N", 1)
      [] base = "ENERGY"   -> Part("J", 1)
      [] base = "PRESSURE" -> Part("Pa", 1)

SystemBases == <<"LENGTH", "MASS", "TIME", "FORCE", "ENERGY", "PRESSURE">>

\* the units a quantity of dimension d is printed in
SimplifiedUnits(d) ==
    LET pw(sym, e) == IF e = 0 THEN <<>> ELSE <<Part(sym, e)>>
    IN  IF d = NoDim THEN <<>>
        ELSE IF \E i \in DOMAIN SystemBases : BaseDim(SystemBases[i]) = d
        THEN <<SystemUnit(SystemBases[CHOOSE i \in DOMAIN SystemBases :
                                         /\ BaseDim(SystemBases[i]) = d
                                         /\ \A j \in 1..(i - 1) : BaseDim(SystemBases[j]) # d])>>
        ELSE pw("kg", d.mass) \o pw("m", d.length) \o pw("s", d.time)

\* a dimension the unit system names a unit for (NONE among them)
HasSystemUnit(d) == d = NoDim \/ \E i \in DOMAIN SystemBases : BaseDim(SystemBases[i]) = d

\* the list rebuilt from the base units replaces the unit's own only when shorter
KeepSimpler(proposed, units, matched) ==
    IF matched \/ Len(proposed) < Len(units) THEN proposed ELSE units

Simplify(u) ==
    [u EXCEPT !.units = KeepSimpler(SimplifiedUnits(DimOf(u.units)), u.units,
                                    HasSystemUnit(DimOf(u.units)))]

RECURSIVE JoinWords(_)
JoinWords(ws) ==
    IF ws = <<>> THEN <<>>
    ELSE IF Len(ws) = 1 THEN ws
    ELSE <<Head(ws), Sp>> \o JoinWords(Tail(ws))

\* Unit.formatUnits
FormatNumDen(num, den) ==
    JoinWords([i \in DOMAIN num |-> Word(Symbol(num[i]), num[i].power)])
    \o (IF num # <<>> /\ den # <<>> THEN <<Sp, Slash, Sp>> ELSE <<>>)
    \o JoinWords([i \in DOMAIN den |->
                     Word(Symbol(den[i]),
                          IF num # <<>> THEN -den[i].power ELSE den[i].power)])

FormatUnits(parts) ==
    FormatNumDen(SelectSeq(parts, LAMBDA q : q.power > 0),
                 SelectSeq(parts, LAMBDA q : q.power < 0))

\* Unit.format of a unit that needs no simplification
FormatSimplified(simp) ==
    <<NumTok(ToNumber(simp))>>
    \o (IF simp.units = <<>> THEN <<>> ELSE <<Sp>> \o FormatUnits(simp.units))

\* Unit.toString
Format(u) == FormatSimplified(IF u.skip THEN u ELSE Simplify(u))

\* The unit parts a printed unit expression stands for: the words before the
\* slash with their powers, the words after it with the power negated.
RECURSIVE WordsToParts(_, _)
WordsToParts(str, sign) ==
    IF str = <<>> THEN <<>>
    ELSE IF Head(str).t = "op" THEN WordsToParts(Tail(str), -1)
    ELSE IF Head(str).t \in {"sym", "pow"}
    THEN <<Part(Head(str).s, sign * Head(str).p)>> \o WordsToParts(Tail(str), sign)
    ELSE WordsToParts(Tail(str), sign)

\* math.unit(string) succeeds on a numeral followed by known unit symbols
Parses(str) ==
    /\ str # <<>>
    /\ Head(str).t = "num"
    /\ \A i \in 2..Len(str) :
          /\ str[i].t \in {"sp", "op", "sym", "pow"}
          /\ str[i].t \in {"sym", "pow"} => KnownSymbol(str[i].s)

\* math.unit(string)
ParseUnit(str) == MkUnit(Head(str).n, WordsToParts(Tail(str), 1), TRUE)

\* math.unit('1 ' + name)
OneOf(sym) == MkUnit(One, <<Part(sym, 1)>>, TRUE)

(***************************************************************************)
(* The helpers of the page.  null is the empty sequence: a numericValue is  *)
(* <<>> or <<x>>, units and error are <<>> or a non-empty string.           *)
(***************************************************************************)
Null == <<>>

DimensionalAnalysis(nv, units, error) ==
    [numericValue |-> nv, units |-> units, error |-> error]

NoAnalysis == DimensionalAnalysis(Null, Null, Null)

SelectedUnit(baseType, unit, power) ==
    [baseType |-> baseType, unit |-> unit, power |-> power]

RECURSIVE NamesOf(_)
NamesOf(defs) ==
    IF defs = <<>> THEN <<>> ELSE <<Head(defs).name>> \o NamesOf(Tail(defs))

getCompatibleUnits(baseType) ==
    NamesOf(SelectSeq(UNITS, LAMBDA def : def.base = baseType))

\* group.reduce((longest, current) => current.unit.length > longest.unit.length ? ...)
\* Longest with >= for >: among the longest names the last one is kept
RECURSIVE LongestKeepsLast(_, _)
LongestKeepsLast(longest, rest) ==
    IF rest = <<>> THEN longest
    ELSE LongestKeepsLast(IF Len(Head(rest).unit) >= Len(longest.unit)
                          THEN Head(rest) ELSE longest,
                          Tail(rest))

RECURSIVE Longest(_, _)
Longest(longest, rest) ==
    IF rest = <<>> THEN longest
    ELSE Longest(IF Len(Head(rest).unit) > Len(longest.unit) THEN Head(rest) ELSE longest,
                 Tail(rest))

\* group.reduce(...) without initial value: the first element starts as longest
LongestOf(group) == Longest(Head(group), Tail(group))

\* FirstOfValue that takes each numeral where it occurs last
LastOfValue(convs) ==
    SelectSeq([i \in DOMAIN convs |-> i],
              LAMBDA i : \A j \in (i + 1)..Len(convs) :
                            Split0(convs[j].value) # Split0(convs[i].value))

\* the keys of valueGroups in insertion order, as the index of their first conversion
FirstOfValue(convs) ==
    SelectSeq([i \in DOMAIN convs |-> i],
              LAMBDA i : \A j \in 1..(i - 1) :
                            Split0(convs[j].value) # Split0(convs[i].value))

\* Array.from(valueGroups.values()).map(...)
LongestOfGroups(convs, first) ==
    [n \in DOMAIN first |->
        LongestOf(SelectSeq(convs, LAMBDA c : Split0(c.value) = Split0(convs[first[n]].value)))]

\* removeDuplicateConversions that groups nothing
removeDuplicateConversionsKeepsAll(convs) == convs

removeDuplicateConversions(convs) == LongestOfGroups(convs, FirstOfValue(convs))

\* ConvertAll that gives up at the first conversion that fails
RECURSIVE ConvertAllUntilFailure(_, _)
ConvertAllUntilFailure(u, names) ==
    IF names = <<>> THEN <<>>
    ELSE IF CanConvert(u, <<Part(Head(names), 1)>>)
    THEN <<[unit |-> Head(names), value |-> Format(To(u, <<Part(Head(names), 1)>>))]>>
         \o ConvertAllUntilFailure(u, Tail(names))
    ELSE <<>>

\* testUnit.to(compatibleUnit) for every compatible unit, failures dropped
RECURSIVE ConvertAll(_, _)
ConvertAll(u, names) ==
    IF names = <<>> THEN <<>>
    ELSE (IF CanConvert(u, <<Part(Head(names), 1)>>)
          THEN <<[unit |-> Head(names),
                  value |-> Format(To(u, <<Part(Head(names), 1)>>))]>>
          ELSE <<>>)
         \o ConvertAll(u, Tail(names))

\* getConversionFactor: from is the source unit name and suffix the marker the
\* caller appended to it ("" when none)
\* math.unit('1 ' + src).to(toUnit).toNumber(), times the factor of the pressure
\* branch; ok is FALSE when the try block throws
FactorOf(src, target, pressureToForce) ==
    IF CanConvert(src, target)
    THEN [ok |-> TRUE, factor |-> Mul(pressureToForce, ToNumber(To(src, target)))]
    ELSE [ok |-> FALSE, factor |-> One]

\* the unit name each branch of getConversionFactor converts from
SourceName(from, suffix) ==
    CASE suffix = "_force"  -> "N"
      [] suffix = "_length" -> "m"
      [] suffix = "_mass"   -> "kg"
      [] suffix = "_time"   -> "s"
      [] OTHER              -> from

\* math.unit('1 Pa').to('N/m^2').toNumber() * 1
PressureToForce == ToNumber(To(MkUnit(One, <<[unit |-> "Pa", prefix |-> "", power |-> 1]>>, TRUE),
                               <<[unit |-> "N", prefix |-> "", power |-> 1],
                                 [unit |-> "m", prefix |-> "", power |-> -2]>>))

getConversionFactor(from, suffix, toUnit) ==
    IF KnownSymbol(SourceName(from, suffix)) /\ KnownSymbol(toUnit)
    THEN FactorOf(OneOf(SourceName(from, suffix)), <<Part(toUnit, 1)>>,
                  IF suffix = "_force" THEN PressureToForce ELSE One)
    ELSE [ok |-> FALSE, factor |-> One]

\* a.baseType.localeCompare(b.baseType) on the base keys: their alphabetical rank
BaseKeys == <<"AREA", "ENERGY", "FORCE", "LENGTH", "MASS", "POWER", "PRESSURE",
              "SURFACE", "TIME", "VOLUME">>

Rank(baseType) == CHOOSE i \in DOMAIN BaseKeys : BaseKeys[i] = baseType

\* [...units].sort(...): Array.prototype.sort is stable
RECURSIVE InsertSorted(_, _)
InsertSorted(sorted, u) ==
    IF sorted = <<>> THEN <<u>>
    ELSE IF Rank(u.baseType) < Rank(Head(sorted).baseType) THEN <<u>> \o sorted
    ELSE <<Head(sorted)>> \o InsertSorted(Tail(sorted), u)

\* getDimensionalExpression without its sort
SortByBaseTypeUnsorted(units) == units

RECURSIVE SortByBaseType(_)
SortByBaseType(units) ==
    IF units = <<>> THEN <<>>
    ELSE InsertSorted(SortByBaseType(SubSeq(units, 1, Len(units) - 1)), units[Len(units)])

Star == [t |-> "op", n |-> One, s |-> "*", p |-> 0]
LParen == [t |-> "op", n |-> One, s |-> "(", p |-> 0]
RParen == [t |-> "op", n |-> One, s |-> ")", p |-> 0]

\* words.join(' * ')
RECURSIVE JoinStar(_)
JoinStar(ws) ==
    IF ws = <<>> THEN <<>>
    ELSE IF Len(ws) = 1 THEN ws
    ELSE <<Head(ws), Sp, Star, Sp>> \o JoinStar(Tail(ws))

NoUnitsSelected == <<Text("No units selected")>>

\* numerator.map(...).join(' * ')
numeratorStr(numerator) ==
    JoinStar([i \in DOMAIN numerator |->
                 IF numerator[i].power = 1
                 THEN Word(numerator[i].unit, 1)
                 ELSE Caret(numerator[i].unit, numerator[i].power)])

\* denominator.map(...).join(' * ')
denominatorStr(denominator) ==
    JoinStar([i \in DOMAIN denominator |->
                 Caret(denominator[i].unit, -denominator[i].power)])

\* Fraction that takes the first return statement whatever the strings are
FractionAlways(num, den) ==
    <<LParen>> \o num \o <<RParen, Sp, Slash, Sp, LParen>> \o den \o <<RParen>>

\* the four return statements on the two joined strings
Fraction(num, den) ==
    IF num # <<>> /\ den # <<>>
    THEN <<LParen>> \o num \o <<RParen, Sp, Slash, Sp, LParen>> \o den \o <<RParen>>
    ELSE IF num # <<>> THEN num
    ELSE IF den # <<>>
    THEN <<Text("1"), Sp, Slash, Sp, LParen>> \o den \o <<RParen>>
    ELSE NoUnitsSelected

ExpressionOfSorted(sortedUnits) ==
    Fraction(numeratorStr(SelectSeq(sortedUnits, LAMBDA u : u.power > 0)),
             denominatorStr(SelectSeq(sortedUnits, LAMBDA u : u.power < 0)))

getDimensionalExpression(units) ==
    IF units = <<>> THEN NoUnitsSelected
    ELSE ExpressionOfSorted(SortByBaseType(units))

\* The factors a compound base key is recomputed from: the marker appended to the
\* source unit name, the base key looked up in the selection, and the multiplier
\* of the component's power.
Decomposition(baseType) ==
    CASE baseType = "PRESSURE" ->
            <<[suffix |-> "_force",  base |-> "FORCE",  mult |-> 1],
              [suffix |-> "_length", base |-> "LENGTH", mult |-> -2]>>
      [] baseType = "ENERGY" ->
            <<[suffix |-> "_mass",   base |-> "MASS",   mult |-> 1],
              [suffix |-> "_length", base |-> "LENGTH", mult |-> 2],
              [suffix |-> "_time",   base |-> "TIME",   mult |-> -2]>>
      [] baseType = "POWER" ->
            <<[suffix |-> "_mass",   base |-> "MASS",   mult |-> 1],
              [suffix |-> "_length", base |-> "LENGTH", mult |-> 2],
              [suffix |-> "_time",   base |-> "TIME",   mult |-> -3]>>
      [] baseType \in {"SURFACE", "AREA"} ->
            <<[suffix |-> "_length", base |-> "LENGTH", mult |-> 2]>>
      [] baseType = "VOLUME" ->
            <<[suffix |-> "_length", base |-> "LENGTH", mult |-> 3]>>
      [] OTHER -> <<>>

\* new Map(selectedUnits.map(u => [u.baseType, u])).get(baseType): the last entry
\* of that base key, <<>> when there is none
MapGet(sel, baseType) ==
    LET hit == {i \in DOMAIN sel : sel[i].baseType = baseType}
    IN  IF hit = {} THEN <<>> ELSE <<sel[CHOOSE i \in hit : \A j \in hit : j <= i]>>

\* the branches for PRESSURE, ENERGY, POWER, SURFACE/AREA and VOLUME: a factor
\* whose unit is not selected, or whose lookup throws, is left out
\* value *= Math.pow(factor, mult * power), when the lookup does not throw
TimesFactor(value, cf, power) ==
    IF cf.ok THEN Mul(value, Pow(cf.factor, power)) ELSE value

\* one `if (xUnit) { ... }` block of a compound branch
ApplyFactor(value, part, f, su) ==
    IF su = <<>> THEN value
    ELSE TimesFactor(value, getConversionFactor(part.unit, f.suffix, su[1].unit),
                     f.mult * part.power)

RECURSIVE ApplyFactors(_, _, _, _)
ApplyFactors(value, part, factors, sel) ==
    IF factors = <<>> THEN value
    ELSE ApplyFactors(ApplyFactor(value, part, Head(factors),
                                  MapGet(sel, Head(factors).base)),
                      part, Tail(factors), sel)

CannotConvert(from, toUnit) ==
    <<Text("Cannot convert"), Sp, Text(from), Sp, Text("to"), Sp, Text(toUnit)>>

\* the loop over evaluated.units
\* One round of the loop over evaluated.units: the value after originalUnit,
\* or the error the else branch returns with.
\* ConvertPlain that raises the factor to the absolute value of the power
ConvertPlainAbsolute(originalUnit, value, toUnit, cf) ==
    IF cf.ok
    THEN [finalValue |-> Mul(value, Pow(cf.factor, IF originalUnit.power < 0
                                                   THEN -originalUnit.power
                                                   ELSE originalUnit.power)),
          error |-> Null]
    ELSE [finalValue |-> value, error |-> CannotConvert(originalUnit.unit, toUnit)]

\* the else branch: the unit's own base key is looked up and the catch returns
ConvertPlain(originalUnit, value, toUnit, cf) ==
    IF cf.ok
    THEN [finalValue |-> Mul(value, Pow(cf.factor, originalUnit.power)), error |-> Null]
    ELSE [finalValue |-> value, error |-> CannotConvert(originalUnit.unit, toUnit)]

ConvertUnit(originalUnit, baseType, factors, value, sel, su) ==
    IF factors # <<>>
    THEN [finalValue |-> ApplyFactors(value, originalUnit, factors, sel), error |-> Null]
    ELSE IF su = <<>> THEN [finalValue |-> value, error |-> Null]
    ELSE ConvertPlain(originalUnit, value, su[1].unit,
                      getConversionFactor(originalUnit.unit, "", su[1].unit))

ConvertHead(originalUnit, baseType, value, sel) ==
    ConvertUnit(originalUnit, baseType, Decomposition(baseType), value, sel,
                MapGet(sel, baseType))

\* the loop over evaluated.units
RECURSIVE ConvertUnits(_, _, _)
RECURSIVE ConvertRest(_, _, _)
ConvertUnits(units, value, sel) ==
    IF units = <<>> THEN [finalValue |-> value, error |-> Null]
    ELSE ConvertRest(Tail(units),
                     ConvertHead(Head(units), UnitDef(Head(units).unit).base, value, sel),
                     sel)

ConvertRest(units, r, sel) ==
    IF r.error # Null THEN r ELSE ConvertUnits(units, r.finalValue, sel)

\* the statements after the loop
AnalysisOf(r, sel) ==
    IF r.error # Null THEN DimensionalAnalysis(Null, Null, r.error)
    ELSE DimensionalAnalysis(<<r.finalValue>>, getDimensionalExpression(sel), Null)

\* calculateDimensionalAnalysis without the early return on an empty selection
calculateDimensionalAnalysisNoEarlyReturn(evaluated, sel) ==
    AnalysisOf(ConvertUnits(evaluated.units, ToNumber(evaluated), sel), sel)

calculateDimensionalAnalysis(evaluated, sel) ==
    IF sel = <<>> THEN NoAnalysis
    ELSE AnalysisOf(ConvertUnits(evaluated.units, ToNumber(evaluated), sel), sel)

\* [...new Set(xs)]
\* Set.prototype.add
AddDistinct(front, x) ==
    IF \E i \in DOMAIN front : front[i] = x THEN front ELSE front \o <<x>>

RECURSIVE Distinct(_)
Distinct(xs) ==
    IF xs = <<>> THEN <<>>
    ELSE AddDistinct(Distinct(SubSeq(xs, 1, Len(xs) - 1)), xs[Len(xs)])

\* the name getMissingUnits reports for a base key it decomposes onto
MissingName(base) ==
    CASE base = "FORCE"  -> "Force"
      [] base = "LENGTH" -> "Length"
      [] base = "MASS"   -> "Mass"
      [] base = "TIME"   -> "Time"

RECURSIVE MissingFactors(_, _)
MissingFactors(factors, sel) ==
    IF factors = <<>> THEN <<>>
    ELSE (IF MapGet(sel, Head(factors).base) = <<>>
          THEN <<MissingName(Head(factors).base)>> ELSE <<>>)
         \o MissingFactors(Tail(factors), sel)

RECURSIVE MissingOf(_, _)
MissingOf(units, sel) ==
    IF units = <<>> THEN <<>>
    ELSE LET baseType == UnitDef(Head(units).unit).base
         IN  (IF Decomposition(baseType) # <<>>
              THEN MissingFactors(Decomposition(baseType), sel)
              ELSE IF MapGet(sel, baseType) = <<>> THEN <<baseType>> ELSE <<>>)
             \o MissingOf(Tail(units), sel)

\* getMissingUnits without the TIME checks of the ENERGY and POWER branches
getMissingUnitsNoTime(evaluated, sel) ==
    SelectSeq(Distinct(MissingOf(evaluated.units, sel)), LAMBDA name : name # "Time")

getMissingUnits(evaluated, sel) == Distinct(MissingOf(evaluated.units, sel))

\* `Missing required units: ${missingUnits.join(", ")}`
RECURSIVE JoinComma(_)
JoinComma(names) ==
    IF names = <<>> THEN <<>>
    ELSE IF Len(names) = 1 THEN <<Text(Head(names))>>
    ELSE <<Text(Head(names)), Text(","), Sp>> \o JoinComma(Tail(names))

MissingRequired(names) == <<Text("Missing required units:"), Sp>> \o JoinComma(names)

(***************************************************************************)
(* findDerivedUnits and getConversions.                                     *)
(***************************************************************************)
\* areUnitsEquivalent: either direction converts to the other's first unit name,
\* or else the two printed unit parts are the same text
Equivalent(test1, test2) ==
    /\ test1.units # <<>> /\ test2.units # <<>>
    /\ \/ CanConvert(test1, <<Part(test2.units[1].unit, 1)>>)
       \/ CanConvert(test2, <<Part(test1.units[1].unit, 1)>>)
       \/ Split1(Format(test1)) = Split1(Format(test2))

areUnitsEquivalent(unit1, unit2) ==
    /\ Parses(unit1) /\ Parses(unit2)
    /\ Equivalent(ParseUnit(unit1), ParseUnit(unit2))

\* the registry names equivalent to the unit part of the evaluated quantity
equivalentUnits(evaluated) ==
    LET unitPart == Split1(Format(evaluated))
    IN  SelectSeq(NamesOf(UNITS),
                  LAMBDA unitName :
                      areUnitsEquivalent(<<NumTok(One), Sp>> \o unitPart,
                                         <<NumTok(One), Sp>>
                                         \o Split1(Format(OneOf(unitName)))))

\* a.localeCompare(b) on the registry's names: their rank in collation order
Collation == <<"ft", "g", "grams", "J", "joule", "lbf", "m", "meter", "meters", "N", "Pa", "psi",
               "s", "seconds">>

CollationRank(name) == CHOOSE i \in DOMAIN Collation : Collation[i] = name

\* the comparator of the sort is negative: a is shorter, or as long and earlier
\* by localeCompare
lengthDiff(a, b) ==
    \/ Len(a) < Len(b)
    \/ Len(a) = Len(b) /\ CollationRank(a) < CollationRank(b)

\* Array.from(equivalentUnits).sort(...): Array.prototype.sort is stable
RECURSIVE InsertByLength(_, _)
InsertByLength(sorted, a) ==
    IF sorted = <<>> THEN <<a>>
    ELSE IF lengthDiff(a, Head(sorted)) THEN <<a>> \o sorted
    ELSE <<Head(sorted)>> \o InsertByLength(Tail(sorted), a)

RECURSIVE SortByLength(_)
SortByLength(names) ==
    IF names = <<>> THEN <<>>
    ELSE InsertByLength(SortByLength(SubSeq(names, 1, Len(names) - 1)), names[Len(names)])

\* the first name after sorting by length, then by localeCompare
mainUnit(names) == SortByLength(names)[1]

\* part_001: one of the preferred names when the set has one, else its first name
preferredUnits == <<"joule", "watt", "newton", "pascal", "volt", "ohm">>

\* found || Array.from(equivalentUnits)[0]
FoundOrFirst(found, names) == IF found # <<>> THEN found[1] ELSE names[1]

mainUnitPreferred(names) ==
    FoundOrFirst(SelectSeq(names, LAMBDA unit :
                               \E i \in DOMAIN preferredUnits : preferredUnits[i] = unit),
                 names)

\* page.tsx: the conversions are those of the evaluated value, not deduplicated
\* derivedUnits.push({name: mainUnit, definition, conversions}), when there are any
DerivedUnit(main, allConversions) ==
    IF allConversions = <<>> THEN <<>>
    ELSE <<[name |-> main,
            definition |-> Format(OneOf(main)),
            conversions |-> allConversions]>>

\* directConversions followed by equivalentConversions, both of the unit from
allConversions(from, equivalent, main) ==
    ConvertAll(from, getCompatibleUnits(main))
    \o ConvertAll(from, SelectSeq(equivalent, LAMBDA unit : unit # main))

DerivedOfEquivalent(evaluated, equivalent) ==
    IF equivalent = <<>> THEN <<>>
    ELSE DerivedUnit(mainUnit(equivalent),
                     allConversions(evaluated, equivalent, mainUnit(equivalent)))

findDerivedUnits(evaluated) == DerivedOfEquivalent(evaluated, equivalentUnits(evaluated))

\* part_000 and part_002: the conversions are those of one main unit, deduplicated
DerivedUnitDeduplicated(main, conversionsOfOne) ==
    IF conversionsOfOne = <<>> THEN <<>>
    ELSE <<[name |-> main,
            definition |-> Format(OneOf(main)),
            conversions |-> removeDuplicateConversions(conversionsOfOne)]>>

DerivedOfOneEquivalent(equivalent) ==
    IF equivalent = <<>> THEN <<>>
    ELSE DerivedUnitDeduplicated(
             mainUnit(equivalent),
             allConversions(OneOf(mainUnit(equivalent)), equivalent, mainUnit(equivalent)))

findDerivedUnitsOfOne(evaluated) == DerivedOfOneEquivalent(equivalentUnits(evaluated))

UnitConversion(baseType, power, convs) ==
    [baseType |-> baseType, power |-> power, conversions |-> convs, derivedUnits |-> <<>>]

\* the groups page.tsx builds when the first unit is PRESSURE, ENERGY or POWER:
\* base key, test unit and power of each
CompoundGroups(baseType) ==
    CASE baseType = "PRESSURE" ->
            <<[baseType |-> "FORCE",  test |-> "N",  power |-> 1],
              [baseType |-> "LENGTH", test |-> "m",  power |-> -2]>>
      [] baseType = "ENERGY" ->
            <<[baseType |-> "MASS",   test |-> "kg", power |-> 1],
              [baseType |-> "LENGTH", test |-> "m",  power |-> 2],
              [baseType |-> "TIME",   test |-> "s",  power |-> -2]>>
      [] baseType = "POWER" ->
            <<[baseType |-> "MASS",   test |-> "kg", power |-> 1],
              [baseType |-> "LENGTH", test |-> "m",  power |-> 2],
              [baseType |-> "TIME",   test |-> "s",  power |-> -3]>>
      [] OTHER -> <<>>

\* if (convs.length > 0) results.push({baseType, power, conversions: ...})
PushGroup(baseType, power, convs) ==
    IF convs # <<>>
    THEN <<UnitConversion(baseType, power, removeDuplicateConversions(convs))>>
    ELSE <<>>

RECURSIVE BuildCompound(_)
BuildCompound(groups) ==
    IF groups = <<>> THEN <<>>
    ELSE PushGroup(Head(groups).baseType, Head(groups).power,
                   ConvertAll(OneOf(Head(groups).test),
                              getCompatibleUnits(Head(groups).baseType)))
         \o BuildCompound(Tail(groups))

\* units.forEach with seenBaseTypes: one group per base key, from its first unit;
\* withPrefix says whether the test unit keeps the prefix (part_000) or not
\* results.push({baseType, power, conversions: removeDuplicateConversions(...)})
PlainGroup(unitPart, baseType, withPrefix) ==
    <<UnitConversion(baseType, unitPart.power,
          removeDuplicateConversions(
              ConvertAll(OneOf(IF withPrefix THEN Symbol(unitPart) ELSE unitPart.unit),
                         getCompatibleUnits(baseType))))>>

RECURSIVE BuildPlain(_, _, _)
RECURSIVE BuildPlainFrom(_, _, _, _)
BuildPlain(units, seenBaseTypes, withPrefix) ==
    IF units = <<>> THEN <<>>
    ELSE BuildPlainFrom(units, UnitDef(Head(units).unit).base, seenBaseTypes, withPrefix)

BuildPlainFrom(units, baseType, seenBaseTypes, withPrefix) ==
    IF baseType \in seenBaseTypes
    THEN BuildPlain(Tail(units), seenBaseTypes, withPrefix)
    ELSE PlainGroup(Head(units), baseType, withPrefix)
         \o BuildPlain(Tail(units), seenBaseTypes \cup {baseType}, withPrefix)

\* AttachDerived that gives the derived units to every group
AttachDerivedToAll(results, derivedUnits) ==
    [k \in DOMAIN results |-> [results[k] EXCEPT !.derivedUnits = derivedUnits]]

\* results[0].derivedUnits = derivedUnits, when there are results and derived units
AttachDerived(results, derivedUnits) ==
    IF results # <<>> /\ derivedUnits # <<>>
    THEN [results EXCEPT ![1].derivedUnits = derivedUnits]
    ELSE results

\* page.tsx
\* the results array before the derived units are attached
GroupsOf(unit, compound) ==
    IF compound # <<>> THEN BuildCompound(compound) ELSE BuildPlain(unit.units, {}, FALSE)

getConversions(unit) ==
    IF unit.units = <<>> THEN <<>>
    ELSE AttachDerived(GroupsOf(unit, CompoundGroups(UnitDef(unit.units[1].unit).base)),
                       findDerivedUnits(unit))

\* part_000
getConversionsAuto(unit) ==
    IF unit.units = <<>> THEN <<>>
    ELSE AttachDerived(BuildPlain(unit.units, {}, TRUE), findDerivedUnitsOfOne(unit))

\* part_002
getConversionsFilter(unit) ==
    IF unit.units = <<>> THEN <<>>
    ELSE AttachDerived(BuildPlain(unit.units, {}, FALSE), findDerivedUnitsOfOne(unit))

(***************************************************************************)
(* The page.  The expressions a user types, and what math.evaluate makes    *)
(* of each: it throws, or returns something that is no unit, or returns a   *)
(* Unit.                                                                    *)
(***************************************************************************)
defaultValue == "x=2N/m^2"

Inputs == {"", "2 +", "true", "x=2N/m^2", "5 cm", "5 kg*m^2/s^2", "3 m/s"}

Throws(input) == input = "2 +"

UnitInputs == {"x=2N/m^2", "5 cm", "5 kg*m^2/s^2", "3 m/s", "2 m * 3 m"}

IsUnit(input) == input \in UnitInputs

\* math.evaluate(input), for the inputs that evaluate to a Unit
Evaluate(input) ==
    CASE input = "x=2N/m^2"     -> MkUnit(Two, <<Part("N", 1), Part("m", -2)>>, FALSE)
      [] input = "5 cm"         -> MkUnit(Five, <<Part("cm", 1)>>, TRUE)
      [] input = "5 kg*m^2/s^2" ->
            MkUnit(Five, <<Part("kg", 1), Part("m", 2), Part("s", -2)>>, FALSE)
      [] input = "3 m/s"        -> MkUnit(Three, <<Part("m", 1), Part("s", -1)>>, FALSE)
      [] input = "2 m * 3 m"    ->
            MkUnit(Mul(Two, Three), <<Part("m", 1), Part("m", 1)>>, FALSE)

\* evaluated.toString()
EvaluatedString(input) == IF IsUnit(input) THEN Format(Evaluate(input)) ELSE <<Text(input)>>

Result(value, inMeters, da) ==
    [value |-> value, inMeters |-> inMeters, dimensionalAnalysis |-> da]

EmptyResult == Result(<<>>, Null, NoAnalysis)

InvalidExpression == <<Text("Invalid expression")>>

InvalidResult ==
    Result(InvalidExpression, Null, DimensionalAnalysis(Null, Null, InvalidExpression))

\* the secondary menus of the metres, seconds and grams buttons (two entries of each)
commonLengthUnits == <<"cm", "m">>
commonTimeUnits == <<"ms", "s">>
commonMassUnits == <<"g", "kg">>

Elems(seq) == {seq[i] : i \in DOMAIN seq}

\* UnitConversionButton: the units a click on the button of conv can select
ButtonUnits(baseType, conv) ==
    IF baseType = "LENGTH" /\ conv.unit \in {"meters", "m"} THEN Elems(commonLengthUnits)
    ELSE IF baseType = "TIME" /\ conv.unit \in {"seconds", "s"} THEN Elems(commonTimeUnits)
    ELSE IF baseType = "MASS" /\ conv.unit \in {"grams", "g"} THEN Elems(commonMassUnits)
    ELSE {conv.unit}

\* the (baseType, unit, power) triples the rendered buttons pass to onSelect
Selectable(convs) ==
    UNION {UNION {{SelectedUnit(convs[i].baseType, unit, convs[i].power) :
                      unit \in ButtonUnits(convs[i].baseType, convs[i].conversions[j])} :
                  j \in DOMAIN convs[i].conversions} :
           i \in DOMAIN convs}

Op(op, input, picked) == [op |-> op, input |-> input, picked |-> picked]

NoPick == SelectedUnit("", "", 0)

(***************************************************************************)
(* page.tsx                                                                 *)
(***************************************************************************)
\* getConversions(math.evaluate(input)), computed once for every input
ConversionsOf == [input \in UnitInputs |-> getConversions(Evaluate(input))]

\* evaluateExpression: the state it leaves, from the state it finds
\* setResult(prev => ({...prev, value: evaluated.toString(), inMeters: inMeters.toString()}))
KeepAnalysis(prev, str) == [prev EXCEPT !.value = str, !.inMeters = str]

\* evaluateExpression whose catch block forgets setSelectedUnits([])
evaluateExpressionKeepsSelection(input, prev, sel) ==
    IF input = ""
    THEN [result |-> EmptyResult, conversions |-> <<>>, selectedUnits |-> <<>>]
    ELSE IF Throws(input)
    THEN [result |-> InvalidResult, conversions |-> <<>>, selectedUnits |-> sel]
    ELSE IF IsUnit(input)
    THEN [result |-> KeepAnalysis(prev, Format(Evaluate(input))),
          conversions |-> ConversionsOf[input],
          selectedUnits |-> sel]
    ELSE [result |-> Result(EvaluatedString(input), Null, NoAnalysis),
          conversions |-> <<>>,
          selectedUnits |-> sel]

evaluateExpression(input, prev, sel) ==
    IF input = ""
    THEN [result |-> EmptyResult, conversions |-> <<>>, selectedUnits |-> <<>>]
    ELSE IF Throws(input)
    THEN [result |-> InvalidResult, conversions |-> <<>>, selectedUnits |-> <<>>]
    ELSE IF IsUnit(input)
    THEN [result |-> KeepAnalysis(prev, Format(Evaluate(input))),
          conversions |-> ConversionsOf[input],
          selectedUnits |-> sel]
    ELSE [result |-> Result(EvaluatedString(input), Null, NoAnalysis),
          conversions |-> <<>>,
          selectedUnits |-> sel]

\* onChange of the input field; the field is out of reach while the dialog is open
EvaluateExpression(input) ==
    /\ ~isModalOpen
    /\ input # typed
    /\ \E next \in {evaluateExpression(input, result, selectedUnits)} :
           /\ result' = next.result
           /\ conversions' = next.conversions
           /\ selectedUnits' = next.selectedUnits
    /\ typed' = input
    /\ lastOp' = Op("evaluate", input, NoPick)
    /\ UNCHANGED <<isModalOpen, timers, call, editor>>

\* the array handleUnitSelection stores
newSelectedUnits(sel, picked) ==
    SelectSeq(sel, LAMBDA u : u.baseType # picked.baseType) \o <<picked>>

\* the dimensionalAnalysis handleUnitSelection stores when result.value parses
\* the two branches on missingUnits.length
analysisOrMissing(evaluated, sel, missingUnits) ==
    IF missingUnits = <<>>
    THEN calculateDimensionalAnalysis(evaluated, sel)
    ELSE DimensionalAnalysis(Null, Null, MissingRequired(missingUnits))

selectionAnalysis(evaluated, sel) ==
    analysisOrMissing(evaluated, sel, getMissingUnits(evaluated, sel))

\* the try block: math.unit(result.value) throws on a value that is no unit
resultOfSelection(prev, sel) ==
    IF prev.value # <<>> /\ Parses(prev.value)
    THEN [prev EXCEPT !.dimensionalAnalysis = selectionAnalysis(ParseUnit(prev.value), sel)]
    ELSE prev

handleUnitSelection(picked, prev, sel) ==
    [result |-> resultOfSelection(prev, newSelectedUnits(sel, picked)),
     selectedUnits |-> newSelectedUnits(sel, picked)]

HandleUnitSelection(picked) ==
    /\ isModalOpen
    /\ picked \in Selectable(conversions)
    /\ \E next \in {handleUnitSelection(picked, result, selectedUnits)} :
           /\ result' = next.result
           /\ selectedUnits' = next.selectedUnits
    /\ lastOp' = Op("select", "", picked)
    /\ UNCHANGED <<conversions, isModalOpen, timers, typed, call, editor>>

\* the derived-unit buttons are rendered only when none of their units is also a
\* unit of the per-dimension groups
shouldShowPredefinedUnits(derivedUnits, convs) ==
    LET specificUnits == UNION {{convs[i].conversions[j].unit :
                                    j \in DOMAIN convs[i].conversions} : i \in DOMAIN convs}
    IN  ~ \E d \in DOMAIN derivedUnits :
            \E j \in DOMAIN derivedUnits[d].conversions :
                derivedUnits[d].conversions[j].unit \in specificUnits

DerivedButtons(convs) ==
    IF /\ convs # <<>>
       /\ convs[1].derivedUnits # <<>>
       /\ shouldShowPredefinedUnits(convs[1].derivedUnits, convs)
    THEN UNION {Elems(convs[1].derivedUnits[d].conversions) :
                   d \in DOMAIN convs[1].derivedUnits}
    ELSE {}

\* parseFloat of a numeral
ParseFloat(str) == IF str # <<>> /\ Head(str).t = "num" THEN <<Head(str).n>> ELSE Null

\* handleDerivedUnitSelect that stores a new result without spreading prev
handleDerivedUnitSelectWithoutPrev(conv, prev) ==
    IF prev.value # <<>>
    THEN Result(prev.value, Null,
                DimensionalAnalysis(ParseFloat(Split0(conv.value)), <<Text(conv.unit)>>, Null))
    ELSE prev

handleDerivedUnitSelect(conv, prev) ==
    IF prev.value # <<>>
    THEN [prev EXCEPT !.dimensionalAnalysis =
             DimensionalAnalysis(ParseFloat(Split0(conv.value)), <<Text(conv.unit)>>, Null)]
    ELSE prev

HandleDerivedUnitSelect(conv) ==
    /\ isModalOpen
    /\ conv \in DerivedButtons(conversions)
    /\ selectedUnits' = <<>>
    /\ result' = handleDerivedUnitSelect(conv, result)
    /\ lastOp' = Op("derived", "", SelectedUnit("", conv.unit, 0))
    /\ UNCHANGED <<conversions, isModalOpen, timers, typed, call, editor>>

\* the result button opens the dialog when there is a result; the dialog is modal
OpenModal ==
    /\ ~isModalOpen
    /\ result.value # <<>>
    /\ isModalOpen' = TRUE
    /\ UNCHANGED <<result, conversions, selectedUnits, timers, typed, lastOp, call, editor>>

CloseModal ==
    /\ isModalOpen
    /\ isModalOpen' = FALSE
    /\ UNCHANGED <<result, conversions, selectedUnits, timers, typed, lastOp, call, editor>>

\* the conversion pages do not mount the text editor
EditorClosed ==
    /\ content = ""
    /\ isSaving = FALSE
    /\ lastUpdateRef = ""
    /\ debounced = <<>>
    /\ updates = <<>>
    /\ row = ""
    /\ channel = <<>>
    /\ fetch = [phase |-> "none", data |-> ""]

NoCall == [fn |-> "none", unit |-> MkUnit(One, <<>>, TRUE), sel |-> <<>>,
           convs |-> <<>>, out |-> <<>>]

\* the state after mount: the effect has evaluated defaultValue
Init ==
    \E next \in {evaluateExpression(defaultValue, EmptyResult, <<>>)} :
        /\ result = next.result
        /\ conversions = next.conversions
        /\ selectedUnits = next.selectedUnits
        /\ isModalOpen = FALSE
        /\ timers = <<>>
        /\ typed = defaultValue
        /\ lastOp = Op("evaluate", defaultValue, NoPick)
        /\ call = NoCall
        /\ EditorClosed

Next ==
    \/ \E input \in Inputs : EvaluateExpression(input)
    \/ \E picked \in Selectable(conversions) : HandleUnitSelection(picked)
    \/ \E conv \in DerivedButtons(conversions) : HandleDerivedUnitSelect(conv)
    \/ OpenModal
    \/ CloseModal

Spec == Init /\ [][Next]_vars

(***************************************************************************)
(* Properties of the page.                                                  *)
(***************************************************************************)
\* the base dimensions a unit of this base key is recomputed from
RequiredOf(base) ==
    CASE base = "PRESSURE"                    -> {"FORCE", "LENGTH"}
      [] base \in {"ENERGY", "POWER"}          -> {"MASS", "LENGTH", "TIME"}
      [] base \in {"SURFACE", "AREA", "VOLUME"} -> {"LENGTH"}
      [] OTHER                                 -> {base}

RequiredDimensions(units) ==
    UNION {RequiredOf(UnitDef(units[i].unit).base) : i \in DOMAIN units}

SelectedDimensions == {selectedUnits[i].baseType : i \in DOMAIN selectedUnits}

\* the required dimensions of the displayed quantity that have no entry
MissingDimensions ==
    RequiredDimensions(ParseUnit(result.value).units) \ SelectedDimensions

\* the dimension an error message means by a name
DimensionNamed(name) ==
    CASE name = "Force"  -> "FORCE"
      [] name = "Length" -> "LENGTH"
      [] name = "Mass"   -> "MASS"
      [] name = "Time"   -> "TIME"
      [] OTHER           -> name

\* the dimensions an error message lists after its colon
DimensionsNamedIn(error) ==
    {DimensionNamed(error[i].s) :
        i \in {j \in DOMAIN error :
                  /\ error[j].t = "text"
                  /\ error[j].s \notin {"Missing required units:", ","}}}

\* C1: after a unit is selected while a required base dimension of the quantity
\* has no entry, the analysis has no value and no units, and its error lists
\* exactly the missing dimensions.
C1_MissingUnitsReported ==
    (lastOp.op = "select" /\ MissingDimensions # {}) =>
        /\ result.dimensionalAnalysis.numericValue = Null
        /\ result.dimensionalAnalysis.units = Null
        /\ result.dimensionalAnalysis.error # Null
        /\ DimensionsNamedIn(result.dimensionalAnalysis.error) = MissingDimensions

\* 5 kg*m^2/s^2 with MASS and LENGTH selected and TIME not
C1_Witness ==
    /\ lastOp.op = "select"
    /\ typed = "5 kg*m^2/s^2"
    /\ MissingDimensions = {"TIME"}
    /\ result.dimensionalAnalysis.error = MissingRequired(<<"Time">>)

\* C8: after the input expression has changed and been evaluated, no selected
\* unit of the previous expression is left in the selection.
C8_SelectionDiscarded == lastOp.op = "evaluate" => selectedUnits = <<>>

\* C9: after an expression that does not parse, the value is "Invalid
\* expression", inMeters is null, and the conversions and the selection are empty.
C9_InvalidExpressionClears ==
    (lastOp.op = "evaluate" /\ Throws(lastOp.input)) =>
        /\ result.value = InvalidExpression
        /\ result.inMeters = Null
        /\ conversions = <<>>
        /\ selectedUnits = <<>>

C9_Witness ==
    /\ lastOp.op = "evaluate"
    /\ Throws(lastOp.input)
    /\ typed = lastOp.input
    /\ result.value = InvalidExpression

HasValue ==
    \/ result.dimensionalAnalysis.numericValue # Null
    \/ result.dimensionalAnalysis.units # Null

HasError == result.dimensionalAnalysis.error # Null

\* C10: the analysis never has both a value and an error; with a non-empty
\* selection exactly one of them is there, and both are absent only when the
\* selection is empty.
C10_ValueXorError ==
    /\ ~(HasValue /\ HasError)
    /\ selectedUnits # <<>> => (HasValue \/ HasError)
    /\ (~HasValue /\ ~HasError) => selectedUnits = <<>>

\* the analyses of quantity under the selection sel as the page computes one:
\* through the check for missing units, or by calculateDimensionalAnalysis alone
AnalysesOf(quantity, sel) ==
    {calculateDimensionalAnalysis(quantity, sel),
     IF sel = <<>> THEN NoAnalysis ELSE selectionAnalysis(quantity, sel)}

\* the displayed quantity, as evaluated and as read back from its text
LatestQuantities == {Evaluate(typed), ParseUnit(result.value)}

\* C11: after a unit expression is evaluated or a unit is selected, the stored
\* analysis is the one of the latest quantity under the current selection; nothing
\* computed for an earlier expression or an earlier selection is left in it.
C11_ResultIsCurrent ==
    (lastOp.op \in {"evaluate", "select"} /\ IsUnit(typed)) =>
        \E quantity \in LatestQuantities :
            result.dimensionalAnalysis \in AnalysesOf(quantity, selectedUnits)

\* a click on the button of a derived unit, in the open dialog
DerivedStep == isModalOpen /\ isModalOpen' /\ lastOp'.op = "derived"

\* the analysis that shows the numeral of the option with its unit, and no error
ShowsOption(da, conv) ==
    /\ conv.value[1].t = "num"
    /\ da.numericValue = <<conv.value[1].n>>
    /\ da.units = <<Text(conv.unit)>>
    /\ da.error = Null

\* C28: choosing a derived unit empties the selection, leaves value, inMeters
\* and the conversions as they are and, when there is a value, stores the
\* numeral of the chosen option with the unit of that option and no error.
C28_DerivedSelectFrame ==
    [][DerivedStep =>
          /\ selectedUnits' = <<>>
          /\ conversions' = conversions
          /\ result'.value = result.value
          /\ result'.inMeters = result.inMeters
          /\ result.value # <<>> =>
                \E conv \in DerivedButtons(conversions) :
                    /\ conv.unit = lastOp'.picked.unit
                    /\ ShowsOption(result'.dimensionalAnalysis, conv)]_vars

\* psi chosen for 2 N/m^2
C28_Witness ==
    /\ isModalOpen
    /\ lastOp.op = "derived"
    /\ lastOp.picked.unit = "psi"
    /\ selectedUnits = <<>>
    /\ result.value # <<>>
    /\ result.inMeters # Null
    /\ result.dimensionalAnalysis.units = <<Text("psi")>>
    /\ result.dimensionalAnalysis.numericValue # Null

(***************************************************************************)
(* The helpers on their own: removeDuplicateConversions and                 *)
(* calculateDimensionalAnalysis are applied to arguments drawn from bounded *)
(* sets, and call records the arguments with what was returned.             *)
(***************************************************************************)
\* the longest list removeDuplicateConversions is given
MaxList == 3

\* the longest selection calculateDimensionalAnalysis is given
MaxSel == 3

\* a conversion option as ConvertAll builds it
Conversion(unit, x) == [unit |-> unit, value |-> <<NumTok(x), Sp, Word(unit, 1)>>]

\* options with equal numerals, among them names of equal length
ConversionOptions ==
    {Conversion("m", One), Conversion("meters", One), Conversion("ft", One),
     Conversion("cm", One), Conversion("s", Two), Conversion("seconds", Two)}

ConversionLists == UNION {[1..n -> ConversionOptions] : n \in 0..MaxList}

\* the quantities the handlers pass: math.evaluate(input), and math.unit of its text
Quantities ==
    {Evaluate(input) : input \in UnitInputs}
    \cup {ParseUnit(Format(Evaluate(input))) : input \in UnitInputs}

\* selected units, one of them (seconds for LENGTH) that cannot be converted to
SelectionOptions ==
    {SelectedUnit("FORCE", "N", 1), SelectedUnit("FORCE", "lbf", 1),
     SelectedUnit("LENGTH", "m", -2), SelectedUnit("LENGTH", "m", 2),
     SelectedUnit("LENGTH", "cm", 1), SelectedUnit("LENGTH", "ft", 1),
     SelectedUnit("LENGTH", "s", 1), SelectedUnit("MASS", "kg", 1),
     SelectedUnit("TIME", "s", -2), SelectedUnit("TIME", "ms", 1),
     SelectedUnit("LENGTH", "ft", -2), SelectedUnit("TIME", "s", -1),
     SelectedUnit("MASS", "kg", 0)}

\* a selection holds one entry for a base key, in any order
Selections ==
    {sel \in UNION {[1..n -> SelectionOptions] : n \in 0..MaxSel} :
        \A i, j \in DOMAIN sel : sel[i].baseType = sel[j].baseType => i = j}

CallDedup(convs) ==
    /\ call = NoCall
    /\ call' = [fn |-> "removeDuplicateConversions", unit |-> NoCall.unit, sel |-> <<>>,
                convs |-> convs, out |-> removeDuplicateConversions(convs)]
    /\ UNCHANGED <<result, conversions, selectedUnits, isModalOpen, timers, typed, lastOp, editor>>

CallRecompose(evaluated, sel) ==
    /\ call = NoCall
    /\ call' = [fn |-> "calculateDimensionalAnalysis", unit |-> evaluated, sel |-> sel,
                convs |-> <<>>, out |-> calculateDimensionalAnalysis(evaluated, sel)]
    /\ UNCHANGED <<result, conversions, selectedUnits, isModalOpen, timers, typed, lastOp, editor>>

\* quantities whose components repeat a base key or start with a compound one:
\* 3 Pa^2, 2 Pa s and 2 m * m^2 as math.evaluate returns them
BuildQuantities ==
    Quantities
    \cup {MkUnit(Three, <<Part("Pa", 2)>>, FALSE),
          MkUnit(Two, <<Part("Pa", 1), Part("s", 1)>>, FALSE),
          MkUnit(Two, <<Part("m", 1), Part("m", 2)>>, FALSE)}

\* getConversions of the three files
ConversionsBy(fn, evaluated) ==
    CASE fn = "getConversions"       -> getConversions(evaluated)
      [] fn = "getConversionsAuto"   -> getConversionsAuto(evaluated)
      [] fn = "getConversionsFilter" -> getConversionsFilter(evaluated)

CallConversions(fn, evaluated) ==
    /\ call = NoCall
    /\ call' = [fn |-> fn, unit |-> evaluated, sel |-> <<>>, convs |-> <<>>,
                out |-> ConversionsBy(fn, evaluated)]
    /\ UNCHANGED <<result, conversions, selectedUnits, isModalOpen, timers, typed, lastOp, editor>>

CallFormat(sel) ==
    /\ call = NoCall
    /\ call' = [fn |-> "getDimensionalExpression", unit |-> NoCall.unit, sel |-> sel,
                convs |-> <<>>, out |-> getDimensionalExpression(sel)]
    /\ UNCHANGED <<result, conversions, selectedUnits, isModalOpen, timers, typed, lastOp, editor>>

\* the longest list of equivalent names a main unit is chosen from
MaxNames == 3

\* the names of the registry, and one of the names part_001 prefers
NamePool == UnitNames \cup {"joule"}

\* Array.from(equivalentUnits): distinct names in the order they were added
NameLists ==
    {names \in UNION {[1..n -> NamePool] : n \in 1..MaxNames} :
        \A i, j \in DOMAIN names : names[i] = names[j] => i = j}

\* the main unit as page.tsx and as part_001 choose it
MainUnitBy(fn, names) ==
    CASE fn = "mainUnit"          -> mainUnit(names)
      [] fn = "mainUnitPreferred" -> mainUnitPreferred(names)

CallMainUnit(fn, names) ==
    /\ call = NoCall
    /\ call' = [fn |-> fn, unit |-> NoCall.unit, sel |-> <<>>, convs |-> names,
                out |-> MainUnitBy(fn, names)]
    /\ UNCHANGED <<result, conversions, selectedUnits, isModalOpen, timers, typed, lastOp, editor>>

\* findDerivedUnits of page.tsx, and of part_000 and part_002
DerivedBy(fn, evaluated) ==
    CASE fn = "findDerivedUnits"      -> findDerivedUnits(evaluated)
      [] fn = "findDerivedUnitsOfOne" -> findDerivedUnitsOfOne(evaluated)

CallDerived(fn, evaluated) ==
    /\ call = NoCall
    /\ call' = [fn |-> fn, unit |-> evaluated, sel |-> <<>>, convs |-> <<>>,
                out |-> DerivedBy(fn, evaluated)]
    /\ UNCHANGED <<result, conversions, selectedUnits, isModalOpen, timers, typed, lastOp, editor>>

\* the longest list of names a loop of conversion attempts is given
MaxTargets == 3

\* names of the registry, of several base keys
TargetPool == {"m", "ft", "meters", "s", "N", "psi"}

\* the unit names a list of conversions is attempted for
TargetLists ==
    {names \in UNION {[1..n -> TargetPool] : n \in 0..MaxTargets} :
        \A i, j \in DOMAIN names : names[i] = names[j] => i = j}

\* the quantities converted: 5 cm, 3 m/s and 2 N/m^2 as evaluated and as read back
ConvertQuantities ==
    {Evaluate("5 cm"), Evaluate("3 m/s"), Evaluate("x=2N/m^2"),
     ParseUnit(Format(Evaluate("x=2N/m^2")))}

\* the loop of conversion attempts on its own
CallConvertAll(evaluated, names) ==
    /\ call = NoCall
    /\ call' = [fn |-> "ConvertAll", unit |-> evaluated, sel |-> <<>>, convs |-> names,
                out |-> ConvertAll(evaluated, names)]
    /\ UNCHANGED <<result, conversions, selectedUnits, isModalOpen, timers, typed, lastOp, editor>>

\* the caller is done with what was returned
Return ==
    /\ call # NoCall
    /\ call' = NoCall
    /\ UNCHANGED <<result, conversions, selectedUnits, isModalOpen, timers, typed, lastOp, editor>>

InitFn ==
    /\ result = EmptyResult
    /\ conversions = <<>>
    /\ selectedUnits = <<>>
    /\ isModalOpen = FALSE
    /\ timers = <<>>
    /\ typed = ""
    /\ lastOp = Op("none", "", NoPick)
    /\ call = NoCall
    /\ EditorClosed

NextFn ==
    \/ \E convs \in ConversionLists : CallDedup(convs)
    \/ \E evaluated \in Quantities : \E sel \in Selections : CallRecompose(evaluated, sel)
    \/ \E fn \in {"getConversions", "getConversionsAuto", "getConversionsFilter"} :
          \E evaluated \in BuildQuantities : CallConversions(fn, evaluated)
    \/ \E sel \in Selections : CallFormat(sel)
    \/ \E fn \in {"mainUnit", "mainUnitPreferred"} :
          \E names \in NameLists : CallMainUnit(fn, names)
    \/ \E fn \in {"findDerivedUnits", "findDerivedUnitsOfOne"} :
          \E evaluated \in BuildQuantities : CallDerived(fn, evaluated)
    \/ \E evaluated \in ConvertQuantities :
          \E names \in TargetLists : CallConvertAll(evaluated, names)
    \/ Return

SpecFn == InitFn /\ [][NextFn]_vars

Recomposed == call.fn = "calculateDimensionalAnalysis"

Deduplicated == call.fn = "removeDuplicateConversions"

\* the selection names, for every unit of the quantity, that unit for its base key
IsNativeSelection(evaluated, sel) ==
    /\ evaluated.units # <<>>
    /\ \A i \in DOMAIN evaluated.units :
          /\ RequiredOf(UnitDef(evaluated.units[i].unit).base)
                = {UnitDef(evaluated.units[i].unit).base}
          /\ \E j \in DOMAIN sel :
                /\ sel[j].baseType = UnitDef(evaluated.units[i].unit).base
                /\ sel[j].unit = Symbol(evaluated.units[i])
    /\ \A j \in DOMAIN sel :
          \E i \in DOMAIN evaluated.units :
              sel[j].baseType = UnitDef(evaluated.units[i].unit).base

\* C2: a quantity recomposed in its own units, prefixes included, comes back
\* with its own magnitude and no error.
C2_RoundTrip ==
    (Recomposed /\ IsNativeSelection(call.unit, call.sel)) =>
        /\ call.out.numericValue = <<ToNumber(call.unit)>>
        /\ call.out.error = Null

\* C3: with an empty selection calculateDimensionalAnalysis returns no value,
\* no units and no error, whatever the quantity.
C3_EmptySelection == (Recomposed /\ call.sel = <<>>) => call.out = NoAnalysis

C3_Witness ==
    /\ Recomposed
    /\ call.sel = <<>>
    /\ call.unit.units # <<>>
    /\ call.out = NoAnalysis

\* the orders the entries of sel can be given in
OrdersOf(sel) ==
    {[i \in DOMAIN sel |-> sel[f[i]]] :
        f \in {g \in [DOMAIN sel -> DOMAIN sel] : \A i, j \in DOMAIN sel : g[i] = g[j] => i = j}}

\* C4: calculateDimensionalAnalysis returns the same value, the same unit
\* expression and the same error for every order of the selection's entries.
C4_PermutationInvariant ==
    Recomposed =>
        \A perm \in OrdersOf(call.sel) :
            calculateDimensionalAnalysis(call.unit, perm) = call.out

\* two numerator units given against their alphabetical order, and a value
C4_Witness ==
    /\ Recomposed
    /\ Len(call.sel) = 3
    /\ call.sel[1].baseType = "MASS" /\ call.sel[2].baseType = "LENGTH"
    /\ call.sel[1].power > 0 /\ call.sel[2].power > 0
    /\ call.out.numericValue # Null

LeadingNumeral(conv) == Split0(conv.value)

\* C5: the output has no two options with the same leading numeral, and every
\* leading numeral of the input is the leading numeral of an output option.
C5_OneOptionPerNumeral ==
    Deduplicated =>
        /\ \A i, j \in DOMAIN call.out :
              LeadingNumeral(call.out[i]) = LeadingNumeral(call.out[j]) => i = j
        /\ \A i \in DOMAIN call.convs :
              \E j \in DOMAIN call.out :
                  LeadingNumeral(call.out[j]) = LeadingNumeral(call.convs[i])

C5_Witness ==
    /\ Deduplicated
    /\ Len(call.convs) = 3
    /\ Len(call.out) = 2

\* C6: of the input options with one leading numeral, the output keeps the one
\* with the longest unit symbol, and the first of them in the input when
\* several are longest.
C6_LongestFirstKept ==
    Deduplicated =>
        \A k \in DOMAIN call.out :
            \E i \in DOMAIN call.convs :
                /\ call.convs[i] = call.out[k]
                /\ \A j \in DOMAIN call.convs :
                      LeadingNumeral(call.convs[j]) = LeadingNumeral(call.convs[i]) =>
                          \/ Len(call.convs[j].unit) < Len(call.convs[i].unit)
                          \/ Len(call.convs[j].unit) = Len(call.convs[i].unit) /\ i <= j

\* ft and cm tie for longest, cm came first and is kept
C6_Witness ==
    /\ Deduplicated
    /\ call.convs = <<Conversion("cm", One), Conversion("m", One), Conversion("ft", One)>>
    /\ call.out = <<Conversion("cm", One)>>

Built == call.fn \in {"getConversions", "getConversionsAuto", "getConversionsFilter"}

\* the components of the quantity whose base key is baseType, as their indices
ComponentsOf(units, baseType) ==
    {i \in DOMAIN units : UnitDef(units[i].unit).base = baseType}

\* C12: every group getConversions returns for a quantity with unit components
\* has the exponent of a component of the quantity that has the group's base
\* dimension.
C12_GroupExponent ==
    (Built /\ call.unit.units # <<>>) =>
        \A k \in DOMAIN call.out :
            \E i \in ComponentsOf(call.unit.units, call.out[k].baseType) :
                call.out[k].power = call.unit.units[i].power

\* the first component of each base dimension of the quantity, in component order
FirstComponents(units) ==
    SelectSeq([i \in DOMAIN units |-> i],
              LAMBDA i : \A j \in 1..(i - 1) :
                            UnitDef(units[j].unit).base # UnitDef(units[i].unit).base)

\* C13: getConversions returns one group for every base dimension among the
\* components of the quantity and no other, each with the exponent of the first
\* component of its dimension; later components of a dimension add nothing.
C13_OneGroupPerDimension ==
    Built =>
        /\ Len(call.out) = Len(FirstComponents(call.unit.units))
        /\ \A k \in DOMAIN call.out :
              /\ k \in DOMAIN FirstComponents(call.unit.units)
              /\ call.out[k].baseType
                    = UnitDef(call.unit.units[FirstComponents(call.unit.units)[k]].unit).base
              /\ call.out[k].power
                    = call.unit.units[FirstComponents(call.unit.units)[k]].power

\* C14: of the groups page.tsx's getConversions returns only the first can have
\* derived units, and it has them exactly when findDerivedUnits returned some.
C14_DerivedOnFirstOnly ==
    (call.fn = "getConversions" /\ call.out # <<>>) =>
        /\ \A k \in 2..Len(call.out) : call.out[k].derivedUnits = <<>>
        /\ call.out[1].derivedUnits # <<>> <=> findDerivedUnits(call.unit) # <<>>
        /\ call.out[1].derivedUnits = findDerivedUnits(call.unit)

\* 2 N/m^2: two groups, the derived units (Pa) on the first
C14_Witness ==
    /\ call.fn = "getConversions"
    /\ Len(call.out) = 2
    /\ call.out[1].derivedUnits # <<>>
    /\ call.out[2].derivedUnits = <<>>

\* the decomposition of a base dimension into (base dimension, multiplier)
\* factors, with the unit each factor is converted from
FactorsOfDimension(D) ==
    CASE D = "PRESSURE" -> <<[base |-> "FORCE", mult |-> 1, from |-> "N"],
                            [base |-> "LENGTH", mult |-> -2, from |-> "m"]>>
      [] D = "ENERGY"   -> <<[base |-> "MASS", mult |-> 1, from |-> "kg"],
                            [base |-> "LENGTH", mult |-> 2, from |-> "m"],
                            [base |-> "TIME", mult |-> -2, from |-> "s"]>>
      [] D = "POWER"    -> <<[base |-> "MASS", mult |-> 1, from |-> "kg"],
                            [base |-> "LENGTH", mult |-> 2, from |-> "m"],
                            [base |-> "TIME", mult |-> -3, from |-> "s"]>>
      [] D \in {"AREA", "SURFACE"} -> <<[base |-> "LENGTH", mult |-> 2, from |-> "m"]>>
      [] D = "VOLUME"   -> <<[base |-> "LENGTH", mult |-> 3, from |-> "m"]>>
      [] OTHER          -> <<[base |-> D, mult |-> 1, from |-> ""]>>

\* the unit a factor of the component is converted from: the unit of the
\* decomposition, or the component's own symbol when it is not decomposed
FromUnit(component, factor) ==
    IF factor.from = "" THEN Symbol(component) ELSE factor.from

IsSelected(sel, B) == \E j \in DOMAIN sel : sel[j].baseType = B

\* the unit selected for the base dimension B
SelectedFor(sel, B) == sel[CHOOSE j \in DOMAIN sel : sel[j].baseType = B].unit

\* the one-unit conversion factor
OneUnitFactor(from, to) == ToNumber(To(OneOf(from), <<Part(to, 1)>>))

HasFactor(from, to) == CanConvert(OneOf(from), <<Part(to, 1)>>)

\* the (source, target) pairs of the lookups of a recomposition that fail
FailedLookups(units, sel) ==
    UNION {{[from |-> FromUnit(units[i], factor), to |-> SelectedFor(sel, factor.base)] :
               factor \in {f \in Elems(FactorsOfDimension(UnitDef(units[i].unit).base)) :
                               /\ IsSelected(sel, f.base)
                               /\ ~HasFactor(FromUnit(units[i], f),
                                             SelectedFor(sel, f.base))}} :
           i \in DOMAIN units}

\* C16: when a conversion-factor lookup of a recomposition fails, for a plain
\* component or for a factor of a decomposed one, the result has no value and no
\* units, and its error names the source unit and the selected unit of a failed
\* lookup.
C16_FailedLookupAborts ==
    (Recomposed /\ FailedLookups(call.unit.units, call.sel) # {}) =>
        /\ call.out.numericValue = Null
        /\ call.out.units = Null
        /\ \E pair \in FailedLookups(call.unit.units, call.sel) :
              call.out.error = CannotConvert(pair.from, pair.to)

\* the product of f^(m*p) over the factors of one component
RECURSIVE FactorProduct(_, _, _)
FactorProduct(component, factors, sel) ==
    IF factors = <<>> THEN One
    ELSE Mul(Pow(OneUnitFactor(FromUnit(component, Head(factors)),
                               SelectedFor(sel, Head(factors).base)),
                 Head(factors).mult * component.power),
             FactorProduct(component, Tail(factors), sel))

\* the product over all components
RECURSIVE ValueProduct(_, _)
ValueProduct(units, sel) ==
    IF units = <<>> THEN One
    ELSE Mul(FactorProduct(Head(units),
                           FactorsOfDimension(UnitDef(Head(units).unit).base), sel),
             ValueProduct(Tail(units), sel))

ExpectedValue(quantity, sel) == Mul(ToNumber(quantity), ValueProduct(quantity.units, sel))

\* every required dimension is selected, and every lookup succeeds
IsComplete(quantity, sel) ==
    /\ quantity.units # <<>>
    /\ \A B \in RequiredDimensions(quantity.units) : IsSelected(sel, B)
    /\ FailedLookups(quantity.units, sel) = {}

\* C17: with a complete selection the value of a recomposition is the magnitude
\* times, for every component of exponent p and every factor (B, m) of the
\* decomposition of its dimension, f^(m*p), f being the one-unit conversion
\* factor to the unit selected for B.
C17_ValueIsProductOfFactors ==
    (Recomposed /\ IsComplete(call.unit, call.sel)) =>
        call.out.numericValue = <<ExpectedValue(call.unit, call.sel)>>

\* 2 N/m^2 as math.evaluate returns it and as math.unit reads its text (2 Pa)
TwoNewtonPerSquareMetre ==
    {Evaluate("x=2N/m^2"), ParseUnit(Format(Evaluate("x=2N/m^2")))}

IsUnprefixed(quantity) == \A i \in DOMAIN quantity.units : quantity.units[i].prefix = ""

Formatted == call.fn = "getDimensionalExpression"

\* the entries in the order of their base-dimension keys
SortedByKey(entries) ==
    CHOOSE perm \in OrdersOf(entries) :
        \A i, j \in DOMAIN perm : i < j => Rank(perm[i].baseType) <= Rank(perm[j].baseType)

NumeratorOf(sel) == SortedByKey(SelectSeq(sel, LAMBDA u : u.power > 0))

DenominatorOf(sel) == SortedByKey(SelectSeq(sel, LAMBDA u : u.power < 0))

\* the tokens of an expression that stand for a unit, in order
UnitWords(str) == SelectSeq(str, LAMBDA tok : tok.t \in {"sym", "pow"})

\* an expression with every unit reduced to its symbol, whatever its exponent
Symbols(str) ==
    [i \in DOMAIN str |-> IF str[i].t \in {"sym", "pow"} THEN Text(str[i].s) ELSE str[i]]

\* the symbols of the entries joined with ' * '
JoinedSymbols(entries) == JoinStar([i \in DOMAIN entries |-> Text(entries[i].unit)])

\* the expression of a numerator and a denominator, units reduced to symbols
ShapeOf(num, den) ==
    IF num # <<>> /\ den # <<>>
    THEN <<LParen>> \o JoinedSymbols(num) \o <<RParen, Sp, Slash, Sp, LParen>>
         \o JoinedSymbols(den) \o <<RParen>>
    ELSE IF num # <<>> THEN JoinedSymbols(num)
    ELSE IF den # <<>>
    THEN <<Text("1"), Sp, Slash, Sp, LParen>> \o JoinedSymbols(den) \o <<RParen>>
    ELSE <<Text("No units selected")>>

\* C19: the expression lists the entries in the order of their base-dimension
\* keys, as (numerator) / (denominator) when there are entries of positive and
\* of negative exponent, as the numerator alone when there are only positive
\* ones, as 1 / (denominator) when there are only negative ones, and is
\* "No units selected" otherwise.
C19_ExpressionShape ==
    Formatted => Symbols(call.out) = ShapeOf(NumeratorOf(call.sel), DenominatorOf(call.sel))

\* numerator and denominator, the numerator given against the order of the keys
C19_Witness ==
    /\ Formatted
    /\ Len(call.sel) = 3
    /\ call.sel[1].baseType = "MASS" /\ call.sel[1].power > 0
    /\ call.sel[2].baseType = "FORCE" /\ call.sel[2].power > 0
    /\ call.sel[3].power < 0
    /\ Head(call.out) = LParen

\* the exponents the entries are printed with: their absolute values
Exponents(entries) ==
    [i \in DOMAIN entries |->
        IF entries[i].power < 0 THEN -entries[i].power ELSE entries[i].power]

\* C20: every entry is printed as its bare symbol when its exponent, or the
\* absolute value of it in the denominator, is 1, and as symbol^exponent
\* otherwise.
C20_BareSymbolForOne ==
    Formatted =>
        UnitWords(call.out)
            = [i \in 1..(Len(NumeratorOf(call.sel)) + Len(DenominatorOf(call.sel))) |->
                  Word((NumeratorOf(call.sel) \o DenominatorOf(call.sel))[i].unit,
                       Exponents(NumeratorOf(call.sel) \o DenominatorOf(call.sel))[i])]

Chosen == call.fn \in {"mainUnit", "mainUnitPreferred"}

\* C15: the main unit is a member of the equivalent set, no member has a shorter
\* name, no member with a name as long comes before it in alphabetical order,
\* and every order of enumeration of the set gives the same main unit.
C15_MainUnitMinimal ==
    Chosen =>
        /\ \E i \in DOMAIN call.convs : call.convs[i] = call.out
        /\ \A i \in DOMAIN call.convs :
              /\ Len(call.convs[i]) >= Len(call.out)
              /\ Len(call.convs[i]) = Len(call.out) =>
                    CollationRank(call.convs[i]) >= CollationRank(call.out)
        /\ \A perm \in OrdersOf(call.convs) : MainUnitBy(call.fn, perm) = call.out

Resolved == call.fn \in {"findDerivedUnits", "findDerivedUnitsOfOne"}

\* C21: the conversions of every derived unit findDerivedUnits returns hold no
\* two options with the same leading numeral.
C21_DerivedDeduplicated ==
    Resolved =>
        \A d \in DOMAIN call.out :
            \A i, j \in DOMAIN call.out[d].conversions :
                LeadingNumeral(call.out[d].conversions[i])
                    = LeadingNumeral(call.out[d].conversions[j]) => i = j

\* the registry units of the base dimension of main that one main converts to
CompatibleWithMain(main) ==
    {name \in UnitNames :
        /\ UnitDef(name).base = UnitDef(FindUnit(main).unit).base
        /\ CanConvert(OneOf(main), <<Part(name, 1)>>)}

\* C22: the conversions of a derived unit hold, for every registry unit of the
\* main unit's base dimension that one main unit converts to, an option with
\* the value of one main unit in that unit.
C22_CompatibleOptionsListed ==
    Resolved =>
        \A d \in DOMAIN call.out :
            \A name \in CompatibleWithMain(call.out[d].name) :
                \E i \in DOMAIN call.out[d].conversions :
                    /\ call.out[d].conversions[i].unit = name
                    /\ call.out[d].conversions[i].value
                          = Format(To(OneOf(call.out[d].name), <<Part(name, 1)>>))

\* the names of a list that the quantity converts to, in the order of the list
Succeeding(u, names) == SelectSeq(names, LAMBDA name : CanConvert(u, <<Part(name, 1)>>))

\* the option of a conversion that succeeds
OptionOf(u, name) == [unit |-> name, value |-> Format(To(u, <<Part(name, 1)>>))]

\* the group holds an option with the numeral its quantity has in the unit name
RepresentedIn(group, name) ==
    \E i \in DOMAIN group.conversions :
        LeadingNumeral(group.conversions[i])
            = Split0(Format(To(ParseUnit(group.conversions[1].value), <<Part(name, 1)>>)))

\* C23: a conversion attempt that fails leaves out its own option and no other:
\* the options of a list of attempts are those of the attempts that succeed, in
\* order; and getConversions returns, for a quantity with unit components, groups
\* that each hold an option for the numeral of every compatible unit, whatever
\* failed while the derived units were built.
C23_FailedAttemptOmitted ==
    /\ call.fn = "ConvertAll" =>
          call.out = [i \in DOMAIN Succeeding(call.unit, call.convs) |->
                         OptionOf(call.unit, Succeeding(call.unit, call.convs)[i])]
    /\ (Built /\ call.unit.units # <<>>) =>
          /\ call.out # <<>>
          /\ \A k \in DOMAIN call.out :
                /\ call.out[k].conversions # <<>>
                /\ \A name \in Elems(getCompatibleUnits(call.out[k].baseType)) :
                      RepresentedIn(call.out[k], name)

\* the first and the third attempt fail and the second option is there
C23_Witness ==
    /\ call.fn = "ConvertAll"
    /\ Len(call.convs) = 3
    /\ ~CanConvert(call.unit, <<Part(call.convs[1], 1)>>)
    /\ CanConvert(call.unit, <<Part(call.convs[2], 1)>>)
    /\ ~CanConvert(call.unit, <<Part(call.convs[3], 1)>>)
    /\ Len(call.out) = 1
    /\ call.out[1].unit = call.convs[2]

\* the strictly increasing maps of the positions of out into those of convs
Embeddings(out, convs) ==
    {f \in [DOMAIN out -> DOMAIN convs] : \A i, j \in DOMAIN out : i < j => f[i] < f[j]}

\* out is convs with some options left out
IsSubsequence(out, convs) ==
    \E f \in Embeddings(out, convs) : \A k \in DOMAIN out : out[k] = convs[f[k]]

\* C25 as it is stated: the options removeDuplicateConversions returns are in
\* the relative order they had in the list it was given.
C25_RelativeOrderKept == Deduplicated => IsSubsequence(call.out, call.convs)

\* the position at which a leading numeral occurs first in the list
FirstPosition(convs, numeral) ==
    CHOOSE i \in DOMAIN convs :
        /\ LeadingNumeral(convs[i]) = numeral
        /\ \A j \in 1..(i - 1) : LeadingNumeral(convs[j]) # numeral

\* C25: the options removeDuplicateConversions returns are in the order in which
\* their leading numerals occur first in the list it was given.
C25_OrderOfFirstOccurrence ==
    Deduplicated =>
        \A i, j \in DOMAIN call.out :
            i < j => FirstPosition(call.convs, LeadingNumeral(call.out[i]))
                        < FirstPosition(call.convs, LeadingNumeral(call.out[j]))

\* meters stands where m was, before s, though it came after s
C25_Witness ==
    /\ Deduplicated
    /\ call.convs = <<Conversion("m", One), Conversion("s", Two), Conversion("meters", One)>>
    /\ call.out = <<Conversion("meters", One), Conversion("s", Two)>>

\* the quantity handleUnitSelection reads back from the displayed value
Displayed(evaluated) == ParseUnit(Format(evaluated))

\* the base dimensions getMissingUnits reports for the quantity while nothing is
\* selected
Reportable(evaluated) ==
    {DimensionNamed(getMissingUnits(Displayed(evaluated), <<>>)[i]) :
        i \in DOMAIN getMissingUnits(Displayed(evaluated), <<>>)}

\* C26: when page.tsx's getConversions returns groups for a quantity, every base
\* dimension getMissingUnits can report for that quantity has a group, so that a
\* unit can be selected for it.
C26_RequiredDimensionsOffered ==
    (call.fn = "getConversions" /\ call.out # <<>>) =>
        \A B \in Reportable(call.unit) :
            \E k \in DOMAIN call.out : call.out[k].baseType = B

\* the multiplier with which a list of factors has the base dimension B
MultOf(factors, B) ==
    IF \E i \in DOMAIN factors : factors[i].base = B
    THEN factors[CHOOSE i \in DOMAIN factors : factors[i].base = B].mult
    ELSE 0

\* the exponent the factor of B is applied with, summed over the components
RECURSIVE NetExponent(_, _)
NetExponent(units, B) ==
    IF units = <<>> THEN 0
    ELSE MultOf(FactorsOfDimension(UnitDef(Head(units).unit).base), B) * Head(units).power
         + NetExponent(Tail(units), B)

\* C27: when a unit selection has produced a value, every selected unit, which
\* is what the unit expression shows, is of a base dimension the displayed
\* quantity is recomputed from, and its exponent is the net exponent with which
\* the factor of that dimension was applied.
C27_ShownExponentIsApplied ==
    (lastOp.op = "select" /\ result.dimensionalAnalysis.numericValue # Null) =>
        \A i \in DOMAIN selectedUnits :
            /\ selectedUnits[i].baseType \in RequiredDimensions(ParseUnit(result.value).units)
            /\ selectedUnits[i].power
                  = NetExponent(ParseUnit(result.value).units, selectedUnits[i].baseType)

(***************************************************************************)
(* part_000: no dialog; evaluateExpression empties the selection and leaves *)
(* a timer whose callback selects the units of the expression it was made   *)
(* for.  A timer is kept as the input its closure was made from.            *)
(***************************************************************************)
\* the timers that can wait at once
MaxTimers == 2

InputsAuto == Inputs \cup {"2 m * 3 m"}

ConversionsOfAuto == [input \in UnitInputs |-> getConversionsAuto(Evaluate(input))]

\* the callback of conversionGroup.conversions.find: both units parse, and the
\* first conversion decides
MatchesUnit(fullUnitName, unit) ==
    /\ CanConvert(OneOf(fullUnitName), <<Part(FindUnit(unit).unit, 1)>>)
    /\ ToNumber(To(OneOf(fullUnitName), <<Part(FindUnit(unit).unit, 1)>>)) = One

\* the entry of the common list of the base key, when fullUnitName is in it
IsCommonUnit(baseType, fullUnitName) ==
    \/ baseType = "LENGTH" /\ fullUnitName \in Elems(commonLengthUnits)
    \/ baseType = "TIME" /\ fullUnitName \in Elems(commonTimeUnits)
    \/ baseType = "MASS" /\ fullUnitName \in Elems(commonMassUnits)

\* what the forEach callback pushes for one unit part, given its conversion group
PushFor(baseType, fullUnitName, power, conversionGroup) ==
    IF IsCommonUnit(baseType, fullUnitName)
    THEN <<SelectedUnit(baseType, fullUnitName, power)>>
    ELSE IF \E j \in DOMAIN conversionGroup.conversions :
                MatchesUnit(fullUnitName, conversionGroup.conversions[j].unit)
    THEN <<SelectedUnit(baseType,
                        conversionGroup.conversions[
                            CHOOSE j \in DOMAIN conversionGroup.conversions :
                                /\ MatchesUnit(fullUnitName, conversionGroup.conversions[j].unit)
                                /\ \A k \in 1..(j - 1) :
                                      ~MatchesUnit(fullUnitName,
                                                   conversionGroup.conversions[k].unit)].unit,
                        power)>>
    ELSE <<>>

\* conversions.find(conv => conv.baseType === baseType && conv.power === power)
FindGroup(convs, baseType, power) ==
    SelectSeq(convs, LAMBDA conv : conv.baseType = baseType /\ conv.power = power)

PushForPart(unitPart, groups) ==
    IF groups = <<>> THEN <<>>
    ELSE PushFor(groups[1].baseType, Symbol(unitPart), unitPart.power, groups[1])

\* units.forEach(unitPart => ...)
RECURSIVE PushForUnits(_, _)
PushForUnits(units, convs) ==
    IF units = <<>> THEN <<>>
    ELSE PushForPart(Head(units),
                     FindGroup(convs, UnitDef(Head(units).unit).base, Head(units).power))
         \o PushForUnits(Tail(units), convs)

\* conversions.find(conv => conv.baseType === baseType)
GroupOf(convs, baseType) == SelectSeq(convs, LAMBDA conv : conv.baseType = baseType)

\* the first conversion of the group of a base key, with the given power
FirstOf(groups, power) ==
    IF groups[1].conversions = <<>> THEN <<>>
    ELSE <<SelectedUnit(groups[1].baseType, groups[1].conversions[1].unit, power)>>

\* the blocks for units with a PRESSURE part and for units with an ENERGY part
PushForCompound(units, convs) ==
    (IF /\ \E i \in DOMAIN units : UnitDef(units[i].unit).base = "PRESSURE"
        /\ GroupOf(convs, "FORCE") # <<>>
        /\ GroupOf(convs, "LENGTH") # <<>>
     THEN FirstOf(GroupOf(convs, "FORCE"), 1) \o FirstOf(GroupOf(convs, "LENGTH"), -2)
     ELSE <<>>)
    \o
    (IF /\ \E i \in DOMAIN units : UnitDef(units[i].unit).base = "ENERGY"
        /\ GroupOf(convs, "MASS") # <<>>
        /\ GroupOf(convs, "LENGTH") # <<>>
        /\ GroupOf(convs, "TIME") # <<>>
     THEN FirstOf(GroupOf(convs, "MASS"), 1) \o FirstOf(GroupOf(convs, "LENGTH"), 2)
          \o FirstOf(GroupOf(convs, "TIME"), -2)
     ELSE <<>>)

\* newSelectedUnits of the callback of autoSelectUnits
autoSelectUnits(evaluated, convs) ==
    PushForUnits(evaluated.units, convs) \o PushForCompound(evaluated.units, convs)

\* part_000's evaluateExpression, without the timer it leaves
evaluateExpressionAuto(input, prev, sel) ==
    IF input = ""
    THEN [result |-> EmptyResult, conversions |-> <<>>, selectedUnits |-> <<>>]
    ELSE IF Throws(input)
    THEN [result |-> InvalidResult, conversions |-> <<>>, selectedUnits |-> <<>>]
    ELSE IF IsUnit(input)
    THEN [result |-> KeepAnalysis(prev, Format(Evaluate(input))),
          conversions |-> ConversionsOfAuto[input],
          selectedUnits |-> <<>>]
    ELSE [result |-> Result(EvaluatedString(input), Null, NoAnalysis),
          conversions |-> <<>>,
          selectedUnits |-> sel]

EvaluateExpressionAuto(input) ==
    /\ input # typed
    /\ IsUnit(input) => Len(timers) < MaxTimers
    /\ \E next \in {evaluateExpressionAuto(input, result, selectedUnits)} :
           /\ result' = next.result
           /\ conversions' = next.conversions
           /\ selectedUnits' = next.selectedUnits
    /\ timers' = IF IsUnit(input) THEN Append(timers, input) ELSE timers
    /\ typed' = input
    /\ lastOp' = Op("evaluate", input, NoPick)
    /\ UNCHANGED <<isModalOpen, call, editor>>

\* the end of the callback: if (newSelectedUnits.length > 0) { ... }
autoSelected(evaluated, new, prev, sel) ==
    IF new # <<>>
    THEN [result |-> [prev EXCEPT !.dimensionalAnalysis =
                         calculateDimensionalAnalysis(evaluated, new)],
          selectedUnits |-> new]
    ELSE [result |-> prev, selectedUnits |-> sel]

\* the oldest timer fires
AutoSelectTimeout ==
    /\ timers # <<>>
    /\ \E next \in {autoSelected(Evaluate(Head(timers)),
                                autoSelectUnits(Evaluate(Head(timers)),
                                                ConversionsOfAuto[Head(timers)]),
                                result, selectedUnits)} :
           /\ result' = next.result
           /\ selectedUnits' = next.selectedUnits
    /\ timers' = Tail(timers)
    /\ lastOp' = Op("auto", Head(timers), NoPick)
    /\ UNCHANGED <<conversions, isModalOpen, typed, call, editor>>

\* part_000 and part_002: handleUnitSelection has no check for missing units
resultOfSelectionDirect(prev, sel) ==
    IF prev.value # <<>> /\ Parses(prev.value)
    THEN [prev EXCEPT !.dimensionalAnalysis =
             calculateDimensionalAnalysis(ParseUnit(prev.value), sel)]
    ELSE prev

handleUnitSelectionDirect(picked, prev, sel) ==
    [result |-> resultOfSelectionDirect(prev, newSelectedUnits(sel, picked)),
     selectedUnits |-> newSelectedUnits(sel, picked)]

HandleUnitSelectionAuto(picked) ==
    /\ picked \in Selectable(conversions)
    /\ \E next \in {handleUnitSelectionDirect(picked, result, selectedUnits)} :
           /\ result' = next.result
           /\ selectedUnits' = next.selectedUnits
    /\ lastOp' = Op("select", "", picked)
    /\ UNCHANGED <<conversions, isModalOpen, timers, typed, call, editor>>

\* after mount: defaultValue is evaluated and its timer waits
InitAuto ==
    \E next \in {evaluateExpressionAuto(defaultValue, EmptyResult, <<>>)} :
        /\ result = next.result
        /\ conversions = next.conversions
        /\ selectedUnits = next.selectedUnits
        /\ isModalOpen = FALSE
        /\ timers = <<defaultValue>>
        /\ typed = defaultValue
        /\ lastOp = Op("evaluate", defaultValue, NoPick)
        /\ call = NoCall
        /\ EditorClosed

NextAuto ==
    \/ \E input \in InputsAuto : EvaluateExpressionAuto(input)
    \/ AutoSelectTimeout
    \/ \E picked \in Selectable(conversions) : HandleUnitSelectionAuto(picked)

SpecAuto == InitAuto /\ [][NextAuto]_vars

AtMostOnePerDimension ==
    \A i, j \in DOMAIN selectedUnits :
        selectedUnits[i].baseType = selectedUnits[j].baseType => i = j

\* a step that ends with the selection of picked: its base key has the one entry
\* picked, and the entries of the other base keys are as they were
SelectionReplaces ==
    lastOp'.op = "select" =>
        /\ SelectSeq(selectedUnits', LAMBDA u : u.baseType = lastOp'.picked.baseType)
              = <<lastOp'.picked>>
        /\ SelectSeq(selectedUnits', LAMBDA u : u.baseType # lastOp'.picked.baseType)
              = SelectSeq(selectedUnits, LAMBDA u : u.baseType # lastOp'.picked.baseType)

\* C7: the selection never holds two entries of one base dimension, and
\* selecting a unit replaces the entry of its dimension and leaves the entries
\* of the other dimensions as they were.
C7_OneUnitPerDimension == []AtMostOnePerDimension /\ [][SelectionReplaces]_vars

\* a step of the callback of a timer that was left for an expression other than
\* the one in the input field
StaleAutoSelection == lastOp'.op = "auto" /\ lastOp'.input # typed

\* C24: the callback autoSelectUnits deferred for an earlier expression changes
\* neither the selection nor the result of the expression evaluated after it; in
\* particular a selection emptied for an empty or invalid input stays empty
\* until the next input or unit choice.
C24_NoStaleAutoSelection ==
    [][StaleAutoSelection => (selectedUnits' = selectedUnits /\ result' = result)]_vars

(***************************************************************************)
(* part_002: no dialog and no timer; evaluateExpression keeps the selected  *)
(* units whose base key the new conversions still have, and computes the    *)
(* analysis from the selection as it was before that.                       *)
(***************************************************************************)
ConversionsOfFilter == [input \in UnitInputs |-> getConversionsFilter(Evaluate(input))]

\* prev.filter(selected => currentBaseTypes.has(selected.baseType))
filterSelected(sel, newConversions) ==
    SelectSeq(sel, LAMBDA selected :
                      \E i \in DOMAIN newConversions :
                          newConversions[i].baseType = selected.baseType)

evaluateExpressionFilter(input, prev, sel) ==
    IF input = ""
    THEN [result |-> EmptyResult, conversions |-> <<>>, selectedUnits |-> <<>>]
    ELSE IF Throws(input)
    THEN [result |-> InvalidResult, conversions |-> <<>>, selectedUnits |-> <<>>]
    ELSE IF IsUnit(input)
    THEN [result |-> Result(Format(Evaluate(input)), Format(Evaluate(input)),
                            calculateDimensionalAnalysis(Evaluate(input), sel)),
          conversions |-> ConversionsOfFilter[input],
          selectedUnits |-> filterSelected(sel, ConversionsOfFilter[input])]
    ELSE [result |-> Result(EvaluatedString(input), Null, NoAnalysis),
          conversions |-> <<>>,
          selectedUnits |-> filterSelected(sel, <<>>)]

EvaluateExpressionFilter(input) ==
    /\ input # typed
    /\ \E next \in {evaluateExpressionFilter(input, result, selectedUnits)} :
           /\ result' = next.result
           /\ conversions' = next.conversions
           /\ selectedUnits' = next.selectedUnits
    /\ typed' = input
    /\ lastOp' = Op("evaluate", input, NoPick)
    /\ UNCHANGED <<isModalOpen, timers, call, editor>>

\* the plain buttons of part_002: one unit for each conversion
SelectablePlain(convs) ==
    UNION {{SelectedUnit(convs[i].baseType, convs[i].conversions[j].unit, convs[i].power) :
               j \in DOMAIN convs[i].conversions} : i \in DOMAIN convs}

HandleUnitSelectionFilter(picked) ==
    /\ picked \in SelectablePlain(conversions)
    /\ \E next \in {handleUnitSelectionDirect(picked, result, selectedUnits)} :
           /\ result' = next.result
           /\ selectedUnits' = next.selectedUnits
    /\ lastOp' = Op("select", "", picked)
    /\ UNCHANGED <<conversions, isModalOpen, timers, typed, call, editor>>

InitFilter ==
    \E next \in {evaluateExpressionFilter(defaultValue, EmptyResult, <<>>)} :
        /\ result = next.result
        /\ conversions = next.conversions
        /\ selectedUnits = next.selectedUnits
        /\ isModalOpen = FALSE
        /\ timers = <<>>
        /\ typed = defaultValue
        /\ lastOp = Op("evaluate", defaultValue, NoPick)
        /\ call = NoCall
        /\ EditorClosed

NextFilter ==
    \/ \E input \in Inputs : EvaluateExpressionFilter(input)
    \/ \E picked \in SelectablePlain(conversions) : HandleUnitSelectionFilter(picked)

SpecFilter == InitFilter /\ [][NextFilter]_vars

(***************************************************************************)
(* src/app/math/page.tsx: a text input that writes row 1 of the table       *)
(* math_content 200 ms after the last keystroke and shows what other        *)
(* clients write.  The table and the realtime channel are supabase's: an    *)
(* update that the table takes is published to every subscriber, the        *)
(* writer included.  Updates are taken and answered in the order they were  *)
(* sent, and changes are delivered in the order they were published.        *)
(***************************************************************************)
\* the state of the conversion pages, which this page does not have
page == <<result, conversions, selectedUnits, isModalOpen, timers, typed, lastOp, call>>

\* the texts the user types
Typed == {"a", "ab"}

\* the texts other clients write
WrittenByOthers == {"x"}

\* the update requests that can wait for their answer at once
MaxUpdates == 2

\* the changes that can be on their way at once
MaxChannel == 2

\* supabase.from('math_content').update({content: newContent}).eq('id', 1)
Update(newContent) == [content |-> newContent, applied |-> FALSE]

\* payload.new of a change, and whether this client wrote it
Change(newContent, own) == [content |-> newContent, own |-> own]

\* handleInputChange: onChange of the input
handleInputChange(newContent) ==
    /\ newContent # content
    /\ content' = newContent
    /\ isSaving' = TRUE
    /\ debounced' = <<newContent>>
    /\ UNCHANGED <<lastUpdateRef, updates, row, channel, fetch, page>>

\* the timer of debounce fires: updateContent up to its await
updateContent ==
    /\ debounced # <<>>
    /\ Len(updates) < MaxUpdates
    /\ lastUpdateRef' = debounced[1]
    /\ updates' = Append(updates, Update(debounced[1]))
    /\ debounced' = <<>>
    /\ UNCHANGED <<content, isSaving, row, channel, fetch, page>>

\* the requests that the table has not taken yet
NotApplied == {i \in DOMAIN updates : ~updates[i].applied}

\* the table takes the oldest update it has not taken and publishes the change
ApplyUpdate ==
    /\ NotApplied # {}
    /\ Len(channel) < MaxChannel
    /\ \E i \in NotApplied :
          /\ \A j \in NotApplied : i <= j
          /\ updates' = [updates EXCEPT ![i].applied = TRUE]
          /\ row' = updates[i].content
          /\ channel' = Append(channel, Change(updates[i].content, TRUE))
    /\ UNCHANGED <<content, isSaving, lastUpdateRef, debounced, fetch, page>>

\* updateContent after its await: the answer to the oldest request is there, with
\* an error when the table has not taken the update; both ways setIsSaving(false)
UpdateAnswered ==
    /\ updates # <<>>
    /\ updates' = Tail(updates)
    /\ isSaving' = FALSE
    /\ UNCHANGED <<content, lastUpdateRef, debounced, row, channel, fetch, page>>

\* another client writes the row
OtherClientUpdate(newContent) ==
    /\ Len(channel) < MaxChannel
    /\ row' = newContent
    /\ channel' = Append(channel, Change(newContent, FALSE))
    /\ UNCHANGED <<content, isSaving, lastUpdateRef, debounced, updates, fetch, page>>

\* the callback of .on('postgres_changes', ...)
OnChange(newContent) ==
    IF newContent # lastUpdateRef
    THEN content' = newContent /\ lastUpdateRef' = newContent
    ELSE UNCHANGED <<content, lastUpdateRef>>

ReceiveChange ==
    /\ channel # <<>>
    /\ OnChange(Head(channel).content)
    /\ channel' = Tail(channel)
    /\ UNCHANGED <<isSaving, debounced, updates, row, fetch, page>>

\* fetchInitialContent: the table answers the select
FetchRead ==
    /\ fetch.phase = "sent"
    /\ fetch' = [phase |-> "read", data |-> row]
    /\ UNCHANGED <<content, isSaving, lastUpdateRef, debounced, updates, row, channel, page>>

\* fetchInitialContent after its await, without error
FetchResolved ==
    /\ fetch.phase = "read"
    /\ content' = fetch.data
    /\ lastUpdateRef' = fetch.data
    /\ fetch' = [phase |-> "done", data |-> ""]
    /\ UNCHANGED <<isSaving, debounced, updates, row, channel, page>>

\* fetchInitialContent after its await, with an error: it returns
FetchFailed ==
    /\ fetch.phase = "sent"
    /\ fetch' = [phase |-> "done", data |-> ""]
    /\ UNCHANGED <<content, isSaving, lastUpdateRef, debounced, updates, row, channel, page>>

\* after mount: the select is sent and the channel is subscribed
InitEditor ==
    /\ result = EmptyResult
    /\ conversions = <<>>
    /\ selectedUnits = <<>>
    /\ isModalOpen = FALSE
    /\ timers = <<>>
    /\ typed = ""
    /\ lastOp = Op("none", "", NoPick)
    /\ call = NoCall
    /\ content = ""
    /\ isSaving = FALSE
    /\ lastUpdateRef = ""
    /\ debounced = <<>>
    /\ updates = <<>>
    /\ row \in WrittenByOthers \cup {""}
    /\ channel = <<>>
    /\ fetch = [phase |-> "sent", data |-> ""]

NextEditor ==
    \/ \E newContent \in Typed \cup {""} : handleInputChange(newContent)
    \/ updateContent
    \/ ApplyUpdate
    \/ UpdateAnswered
    \/ \E newContent \in WrittenByOthers : OtherClientUpdate(newContent)
    \/ ReceiveChange
    \/ FetchRead
    \/ FetchResolved
    \/ FetchFailed

SpecEditor == InitEditor /\ [][NextEditor]_vars

\* a step in which this client receives the change of one of its own updates
ReceivesEcho == channel # <<>> /\ Head(channel).own /\ channel' = Tail(channel)

\* C29: a change that echoes an update of this client does not change the text
\* the input shows.
C29_EchoIgnored == [][ReceivesEcho => content' = content]_vars

\* C30: isSaving is true while a debounced update waits or an update has no
\* answer yet; it is false only when the text typed last has been written or
\* its update has failed.
C30_SavingWhilePending == (debounced # <<>> \/ updates # <<>>) => isSaving

====
